---- MODULE Spec2Model ----
(***************************************************************************)
(* A model of xplane_airports/AptDat.py: the line tokenizer, the Airport   *)
(* entity and the AptDat file container (parse, serialize, search).        *)
(*                                                                         *)
(* Text is modelled as a sequence of pieces.  A piece is either one        *)
(* whitespace character (SP, TAB, NL) or one word (a maximal run of        *)
(* non-whitespace characters, such as "1302" or "KSEA").  A Python str is  *)
(* a sequence of pieces, a Python list of str a sequence of such           *)
(* sequences.  Two words are never adjacent in a text.                     *)
(***************************************************************************)
EXTENDS Integers, Sequences, FiniteSets, TLC

\* ------------------------------------------------------------------ bounds

\* The most body lines an input file holds.
MaxLines == 3

\* ------------------------------------------------------------------ text

SP == " "
TAB == "\t"
NL == "\n"
WED_LINE_ENDING == <<NL>>

\* The characters str.strip() and int() remove at both ends of a string.
IsSpace(p) == p \in {SP, TAB, NL}

SetMin(S) == CHOOSE x \in S : \A y \in S : x <= y
SetMax(S) == CHOOSE x \in S : \A y \in S : x >= y

\* str.strip(): s without its leading and trailing whitespace.
Strip(s) ==
  LET idx == {i \in 1..Len(s) : ~IsSpace(s[i])}
  IN  IF idx = {} THEN <<>> ELSE SubSeq(s, SetMin(idx), SetMax(idx))

\* str.lstrip(): s without its leading whitespace.
LStrip(s) ==
  LET idx == {i \in 1..Len(s) : ~IsSpace(s[i])}
  IN  IF idx = {} THEN <<>> ELSE SubSeq(s, SetMin(idx), Len(s))

\* str.split(sep) for a one-character separator: every separator cuts, so
\* two separators in a row give an empty string between them.
RECURSIVE SplitOn(_, _)
SplitOn(s, sep) ==
  LET idx == {i \in 1..Len(s) : s[i] = sep}
  IN  IF idx = {} THEN <<s>>
      ELSE LET i == SetMin(idx)
           IN  <<SubSeq(s, 1, i - 1)>> \o SplitOn(SubSeq(s, i + 1, Len(s)), sep)

\* sep.join(strs)
RECURSIVE Join(_, _)
Join(sep, strs) ==
  IF strs = <<>> THEN <<>>
  ELSE IF Len(strs) = 1 THEN strs[1]
  ELSE strs[1] \o sep \o Join(sep, Tail(strs))

\* needle in s, for strings: needle occurs as a contiguous part of s.
Contains(s, needle) ==
  \E i \in 1..(Len(s) - Len(needle) + 1) : SubSeq(s, i, i + Len(needle) - 1) = needle

\* str.splitlines(): cut at every line ending, which is dropped; no empty
\* last line after a final line ending.
RECURSIVE splitlines(_)
splitlines(s) ==
  LET idx == {i \in 1..Len(s) : s[i] = NL}
  IN  IF s = <<>> THEN <<>>
      ELSE IF idx = {} THEN <<s>>
      ELSE LET i == SetMin(idx)
           IN  <<SubSeq(s, 1, i - 1)>> \o splitlines(SubSeq(s, i + 1, Len(s)))

\* file.readlines(): cut after every line ending, which is kept.
RECURSIVE readlines(_)
readlines(s) ==
  LET idx == {i \in 1..Len(s) : s[i] = NL}
  IN  IF s = <<>> THEN <<>>
      ELSE IF idx = {} THEN <<s>>
      ELSE LET i == SetMin(idx)
           IN  <<SubSeq(s, 1, i)>> \o readlines(SubSeq(s, i + 1, Len(s)))

\* The integer literals of the model's texts and their values: int(word).
IntLit ==
  ("0" :> 0) @@ ("1" :> 1) @@ ("16" :> 16) @@ ("17" :> 17) @@ ("99" :> 99) @@
  ("100" :> 100) @@ ("101" :> 101) @@ ("102" :> 102) @@ ("1302" :> 1302) @@
  ("9999" :> 9999) @@ ("1050" :> 1050) @@ ("1100" :> 1100) @@
  ("10" :> 10) @@ ("20" :> 20) @@ ("30" :> 30) @@ ("40" :> 40) @@
  ("-10" :> -10) @@ ("-20" :> -20) @@
  ("50" :> 50) @@ ("56" :> 56) @@ ("57" :> 57) @@ ("1057" :> 1057) @@
  ("5" :> 5) @@ ("6" :> 6) @@ ("7" :> 7) @@ ("1201" :> 1201) @@ ("1202" :> 1202)

\* int(s): surrounding whitespace is ignored; anything but one integer literal
\* raises ValueError.
int(s) ==
  LET t == Strip(s)
  IN  IF Len(t) = 1 /\ t[1] \in DOMAIN IntLit
      THEN [ok |-> TRUE, val |-> IntLit[t[1]]]
      ELSE [ok |-> FALSE, val |-> 0]

\* str(n) for an integer n.
IntStr(n) == <<CHOOSE w \in DOMAIN IntLit : IntLit[w] = n>>

\* str.upper() of a word, and of a string.
UpperWord ==
  ("ksea" :> "KSEA") @@ ("kbfi" :> "KBFI") @@ ("sea" :> "SEA")
upper(s) == [i \in 1..Len(s) |-> IF s[i] \in DOMAIN UpperWord THEN UpperWord[s[i]] ELSE s[i]]

\* ------------------------------------------------------------------ RowCode

AIRPORT_HEADER == 1
SEAPORT_HEADER == 16
HELIPORT_HEADER == 17
FILE_END == 99
LAND_RUNWAY == 100
WATER_RUNWAY == 101
HELIPAD == 102
METADATA == 1302
FREQUENCY_AWOS == 50
FREQUENCY_CTAF == 51
FREQUENCY_DELIVERY == 52
FREQUENCY_GROUND == 53
FREQUENCY_TOWER == 54
FREQUENCY_APPROACH == 55
FREQUENCY_CENTER == 56
TAXI_ROUTE_NODE == 1201
TAXI_ROUTE_EDGE == 1202

\* The values of the RowCode enumeration: RowCode(n) raises ValueError for
\* any other n.
RowCode ==
  {1, 10, 14, 15, 16, 17, 18, 19, 50, 51, 52, 53, 54, 55, 56, 57, 99, 20, 21,
   100, 101, 102, 110, 120, 130, 111, 112, 113, 114, 115, 116,
   1000, 1001, 1002, 1003, 1004, 1050, 1051, 1052, 1053, 1054, 1055, 1056, 1057,
   1100, 1101, 1110, 1200, 1201, 1202, 1203, 1204, 1206, 1300, 1301, 1302,
   1400, 1401}

airport_header_codes == {AIRPORT_HEADER, SEAPORT_HEADER, HELIPORT_HEADER}
runway_codes == {LAND_RUNWAY, WATER_RUNWAY, HELIPAD}

\* The values of the MetadataKey enumeration.
MetadataKey ==
  {"city", "country", "datum_lat", "datum_lon", "faa_code", "gui_label",
   "iata_code", "icao_code", "local_code", "local_authority", "region_code",
   "state", "transition_alt", "transition_level"}

\* ------------------------------------------------------------------ AptDatLine

GENERATED_BY == <<"Generated", SP, "by", SP, "WorldEditor">>

\* AptDatLine.raw_is_file_header
raw_is_file_header(line) ==
  Strip(line) \in {<<"I">>, <<"A">>} \/ Contains(line, GENERATED_BY)

\* AptDatLine.raw_is_ignorable
raw_is_ignorable(line) ==
  \/ raw_is_file_header(line)
  \/ Strip(line) = <<>>
  \/ Strip(line) = IntStr(FILE_END)

\* AptDatLine.tokenize.  The token list [RowCode, field, ...] is the record
\* [code, fields]: fields[i] is the Python tokens[i] for i >= 1.  status is
\* "empty" for the empty token list and "ValueError" when int() or RowCode()
\* raises.
SplitChar == SP
tokenize(line) ==
  LET tokens == SelectSeq(SplitOn(Strip(line), SplitChar), LAMBDA t : t # <<>>)
      n == int(tokens[1])
  IN  IF tokens = <<>> THEN [status |-> "empty", code |-> 0, fields |-> <<>>]
      ELSE IF ~n.ok \/ n.val \notin RowCode
           THEN [status |-> "ValueError", code |-> 0, fields |-> <<>>]
      ELSE [status |-> "ok", code |-> n.val, fields |-> Tail(tokens)]

\* A token list as Airport.tokenized_lines holds it.
Tokens(t) == [code |-> t.code, fields |-> t.fields]

\* ------------------------------------------------------------------ state

VARIABLES
  text,             \* the content of the file being parsed
  keepends,         \* TRUE: lines come from readlines() (AptDat(path)); FALSE: from splitlines() (from_file_text)
  dat_text,         \* _parse_text: the list of lines, after the file header is cut off
  pos,              \* _parse_text: the number of lines of dat_text the loop has consumed
  raw_lines,        \* _parse_text: the raw lines of the airport in progress
  tokenized_lines,  \* _parse_text: the token lists of the airport in progress
  airports,         \* AptDat.airports
  xplane_version,   \* AptDat.xplane_version
  pc,               \* "start", "loop", "done", or "raised" when an exception left _parse_text
  err,              \* the exception raised, "" when none
  disk,             \* the content of the file write_to_disk wrote, <<>> before
  saved,            \* history: AptDat.airports when write_to_disk wrote the file
  gen,              \* history: 0 for the first parse, 1 for the parse of the written file
  found,            \* the result of the last search_by_id, status "" when none
  input,            \* history: the content of the first file parsed
  removed,          \* history: the last del container[key], status "" when none
  other,            \* the airports list of a second container
  fresh,            \* the list object a combination built, <<>> before
  out_ref,          \* the container a combination returned: the list object it holds, "" when none
  operands,         \* history: the lists and the airport a combination was called with
  apt_text,         \* the text an Airport is built from with Airport.from_str
  apt_pc,           \* "text" before Airport.from_str, then "built", or "raised"
  airport,          \* the Airport built
  metadata,         \* the cached value of airport.metadata, status "" before it is computed
  latitude,         \* the result of the last access to airport.latitude, status "" when none
  longitude,        \* the result of the last access to airport.longitude, status "" when none
  head_out,         \* the result of the last airport.head(n), status "" when none
  apt_disk,         \* the content of the file airport.write_to_disk wrote, <<>> before
  id_out,           \* the result of the last access to airport.id, status "" when none
  name_out,         \* the same for airport.name
  elevation_out,    \* the same for airport.elevation_ft_amsl
  has_atc_out,      \* the same for airport.has_atc
  row_codes,        \* the cached value of airport.row_codes, status "" before it is computed
  comm_freq,        \* the result of the last access to airport.has_comm_freq, status "" when none
  atc_network,      \* the cached value of airport.atc_network, status "" before it is computed
  tok_line,         \* a line of text handed to AptDatLine.tokenize
  tokens_out,       \* the result of AptDatLine.tokenize(tok_line), status "" when none
  listing,          \* the airports the Gateway answers /apiv1/airports with
  selective_apt_ids,  \* recommended_scenery_packs: the argument, none TRUE for None
  packs_pc,         \* the generator: "created", "suspended" at a yield, "done", "raised"; "idle" when none
  all_airports,     \* recommended_scenery_packs: the items of the dictionary it iterates
  apt_pos,          \* recommended_scenery_packs: the number of items the loop has taken
  requested,        \* history: the scenery ids handed to scenery_pack
  yielded,          \* history: the AirportCode of apt_metadata of the packs yielded
  retries_on_error, \* _gateway_json_request: the argument, max_tries of retry
  req_pc,           \* retry: "loop", "returned", "raised"; "idle" when no request is made
  attempted,        \* retry: the loop variable, the number of attempts that failed in the loop
  responses,        \* history: what the attempts of the request met, in order
  slept,            \* history: the arguments of the calls of sleep, in order
  req_out           \* the result of _gateway_json_request, status "" before it ends

\* The state of combination and removal, and of the properties read from the
\* Airport built.
editVars == <<removed, other, fresh, out_ref, operands>>
derivedVars == <<head_out, apt_disk, id_out, name_out, elevation_out, has_atc_out,
                 row_codes, comm_freq, atc_network, tok_line, tokens_out>>

\* The state of the generator of recommended packs and of a Gateway request.
packsVars == <<listing, selective_apt_ids, packs_pc, all_airports, apt_pos, requested, yielded>>
retryVars == <<retries_on_error, req_pc, attempted, responses, slept, req_out>>
gatewayVars == <<packsVars, retryVars>>

vars == <<text, keepends, dat_text, pos, raw_lines, tokenized_lines, airports,
          xplane_version, pc, err, disk, saved, gen, found, input,
          apt_text, apt_pc, airport, metadata, latitude, longitude,
          editVars, derivedVars, gatewayVars>>

\* The state of the file container, and of the Airport built from a text.
containerVars == <<text, keepends, dat_text, pos, raw_lines, tokenized_lines, airports,
                   xplane_version, pc, err, disk, saved, gen, found, input, editVars>>
airportVars == <<apt_text, apt_pc, airport, metadata, latitude, longitude, derivedVars>>

\* ------------------------------------------------------------------ Airport

\* The Airport dataclass.  from_file is a path and is not modelled.
Airport(raw, version, tokenized) ==
  [raw_lines |-> raw, xplane_version |-> version, tokenized_lines |-> tokenized]

\* Airport.__str__ joining the lines with a space, not the line ending.
Airport_str_space(apt) == Join(<<SP>>, apt.raw_lines)

\* Airport.__str__
Airport_str(apt) == Join(WED_LINE_ENDING, apt.raw_lines)

\* Airport.id: tokenized_lines[0][4], IndexError when the airport has no line
\* or its first line has no field 4.
Airport_id(apt) ==
  IF apt.tokenized_lines = <<>> \/ Len(apt.tokenized_lines[1].fields) < 4
  THEN [ok |-> FALSE, val |-> <<>>]
  ELSE [ok |-> TRUE, val |-> apt.tokenized_lines[1].fields[4]]

\* ------------------------------------------------------------------ AptDat._parse_text

\* AptDatLine(line).row_code: the text before the first space of the stripped
\* line, as an integer when int() takes it.
AptDatLine_row_code(line) == int(SplitOn(Strip(line), SP)[1])

DEFAULT_VERSION == 1100
VERSION_LIMIT == 9999

\* Airport(): an Airport with the default fields.
NoAirport == Airport(<<>>, DEFAULT_VERSION, <<>>)

\* Lines 512-522: split the text into lines, detect and cut off the file
\* header, take the version from it.
ParseBegin ==
  /\ pc = "start"
  /\ LET lines == IF keepends THEN readlines(text) ELSE splitlines(text)
         version == AptDatLine_row_code(lines[2])
     IN  IF lines = <<>> \/ (Strip(lines[1]) \in {<<"A">>, <<"I">>} /\ Len(lines) < 2)
         THEN /\ pc' = "raised" /\ err' = "IndexError"
              /\ UNCHANGED <<dat_text, xplane_version>>
         ELSE IF Strip(lines[1]) \in {<<"A">>, <<"I">>} /\ Contains(lines[2], GENERATED_BY)
         THEN IF ~version.ok
              THEN /\ pc' = "raised" /\ err' = "TypeError"
                   /\ UNCHANGED <<dat_text, xplane_version>>
              ELSE IF ~(version.val < VERSION_LIMIT)
              THEN /\ pc' = "raised" /\ err' = "AssertionError"
                   /\ xplane_version' = version.val
                   /\ UNCHANGED dat_text
              ELSE /\ pc' = "loop" /\ err' = ""
                   /\ xplane_version' = version.val
                   /\ dat_text' = SubSeq(lines, 3, Len(lines))
         ELSE /\ pc' = "loop" /\ err' = ""
              /\ dat_text' = lines
              /\ UNCHANGED xplane_version
  /\ pos' = 0
  /\ raw_lines' = <<>>
  /\ tokenized_lines' = <<>>
  /\ UNCHANGED <<text, keepends, airports, disk, saved, gen, found, input>>
  /\ UNCHANGED airportVars
  /\ UNCHANGED gatewayVars
  /\ UNCHANGED editVars

\* Lines 525-540: one iteration of the loop over the lines.
ParseLine ==
  /\ pc = "loop"
  /\ pos < Len(dat_text)
  /\ LET line == dat_text[pos + 1]
         tokenized == tokenize(line)
     IN  IF tokenized.status = "ValueError"
         THEN /\ pc' = "raised" /\ err' = "ValueError"
              /\ UNCHANGED <<pos, raw_lines, tokenized_lines, airports>>
         ELSE /\ pos' = pos + 1
              /\ UNCHANGED <<pc, err>>
              /\ IF tokenized.status = "empty"
                 THEN UNCHANGED <<raw_lines, tokenized_lines, airports>>
                 ELSE IF tokenized.code \in airport_header_codes
                 THEN /\ airports' = IF tokenized_lines # <<>>
                                     THEN Append(airports, Airport(raw_lines, xplane_version, tokenized_lines))
                                     ELSE airports
                      /\ raw_lines' = <<line>>
                      /\ tokenized_lines' = <<Tokens(tokenized)>>
                 ELSE /\ tokenized_lines' = Append(tokenized_lines, Tokens(tokenized))
                      /\ raw_lines' = Append(raw_lines, line)
                      /\ UNCHANGED airports
  /\ UNCHANGED <<text, keepends, dat_text, xplane_version, disk, saved, gen, found, input>>
  /\ UNCHANGED airportVars
  /\ UNCHANGED gatewayVars
  /\ UNCHANGED editVars

\* Lines 542-544 left out: a file terminator stays in the last airport.
DropFileEnd_kept(lines, tokenized) == lines

\* Lines 542-544 popping at the front: the first line goes, the file
\* terminator stays.
DropFileEnd_front(lines, tokenized) ==
  IF tokenized[Len(tokenized)].code = FILE_END
  THEN Tail(lines)
  ELSE lines

\* Lines 542-544: the last airport's lines without a file terminator at their end.
DropFileEnd(lines, tokenized) ==
  IF tokenized[Len(tokenized)].code = FILE_END
  THEN SubSeq(lines, 1, Len(lines) - 1)
  ELSE lines

\* Lines 541-546: after the loop, finish off the final airport.
ParseFinish ==
  /\ pc = "loop"
  /\ pos = Len(dat_text)
  /\ pc' = "done"
  /\ IF tokenized_lines # <<>>
     THEN /\ airports' = Append(airports,
                                Airport(DropFileEnd(raw_lines, tokenized_lines),
                                        xplane_version,
                                        DropFileEnd(tokenized_lines, tokenized_lines)))
          /\ raw_lines' = DropFileEnd(raw_lines, tokenized_lines)
          /\ tokenized_lines' = DropFileEnd(tokenized_lines, tokenized_lines)
     ELSE UNCHANGED <<airports, raw_lines, tokenized_lines>>
  /\ UNCHANGED <<text, keepends, dat_text, pos, xplane_version, err, disk, saved, gen, found, input>>
  /\ UNCHANGED airportVars
  /\ UNCHANGED gatewayVars
  /\ UNCHANGED editVars

\* ------------------------------------------------------------------ AptDat.write_to_disk

\* Lines 559-561: the text of the airports, each followed by two line endings.
RECURSIVE AirportsText(_)
AirportsText(apts) ==
  IF apts = <<>> THEN <<>>
  ELSE Airport_str(apts[1]) \o WED_LINE_ENDING \o WED_LINE_ENDING \o AirportsText(Tail(apts))

\* Lines 557-562: the whole text write_to_disk writes.
FileText(version, apts) ==
  <<"I">> \o WED_LINE_ENDING
  \o IntStr(version) \o <<SP>> \o GENERATED_BY \o WED_LINE_ENDING \o WED_LINE_ENDING
  \o AirportsText(apts)
  \o IntStr(FILE_END) \o WED_LINE_ENDING

\* AptDat.write_to_disk, to a path that ends in .dat.
WriteToDisk ==
  /\ pc = "done"
  /\ gen = 0
  /\ disk = <<>>
  /\ disk' = FileText(xplane_version, airports)
  /\ saved' = airports
  /\ UNCHANGED <<text, keepends, dat_text, pos, raw_lines, tokenized_lines, airports,
                 xplane_version, pc, err, gen, found, input>>
  /\ UNCHANGED airportVars
  /\ UNCHANGED gatewayVars
  /\ UNCHANGED editVars

\* AptDat(path) (k = TRUE) or AptDat.from_file_text(text) (k = FALSE) on the
\* file written: a new container, which parses it.
Reload(k) ==
  /\ pc = "done"
  /\ gen = 0
  /\ disk # <<>>
  /\ text' = disk
  /\ keepends' = k
  /\ airports' = <<>>
  /\ xplane_version' = DEFAULT_VERSION
  /\ pc' = "start"
  /\ gen' = 1
  /\ found' = [status |-> "", apt |-> 0]
  /\ UNCHANGED <<dat_text, pos, raw_lines, tokenized_lines, err, disk, saved, input>>
  /\ UNCHANGED airportVars
  /\ UNCHANGED gatewayVars
  /\ UNCHANGED editVars

\* ------------------------------------------------------------------ AptDat.search_by_id

\* AptDat.search_by_predicate: the positions in apts, in order, of the airports
\* the predicate takes.  An airport object is named by its position; the
\* predicate is a function from airports to BOOLEAN.
search_by_predicate(apts, predicate_fn) ==
  LET F[k \in 0..Len(apts)] ==
        IF k = 0 THEN <<>>
        ELSE IF predicate_fn[apts[k]] THEN Append(F[k - 1], k) ELSE F[k - 1]
  IN  F[Len(apts)]

\* Line 579: lambda apt: apt.id.upper() == id.upper(), on the airports of apts.
IdPredicate(apts, id) ==
  [a \in {apts[i] : i \in 1..Len(apts)} |-> upper(Airport_id(a).val) = upper(id)]

\* AptDat.search_by_id without its assertion: the first match is returned.
search_by_id_first(apts, id) ==
  IF \E i \in 1..Len(apts) : ~Airport_id(apts[i]).ok
  THEN [status |-> "IndexError", apt |-> 0]
  ELSE LET matches == search_by_predicate(apts, IdPredicate(apts, id))
       IN  IF matches # <<>>
           THEN [status |-> "Airport", apt |-> matches[1]]
           ELSE [status |-> "None", apt |-> 0]

\* AptDat.search_by_id.  apt.id raises IndexError for an airport without the
\* field; the assertion fails when more than one airport matches.
search_by_id(apts, id) ==
  IF \E i \in 1..Len(apts) : ~Airport_id(apts[i]).ok
  THEN [status |-> "IndexError", apt |-> 0]
  ELSE LET matches == search_by_predicate(apts, IdPredicate(apts, id))
       IN  IF matches # <<>>
           THEN IF Len(matches) = 1
                THEN [status |-> "Airport", apt |-> matches[1]]
                ELSE [status |-> "AssertionError", apt |-> 0]
           ELSE [status |-> "None", apt |-> 0]

\* The identifiers looked up.
QueryIds == {<<"ksea">>, <<"KBFI">>}

SearchById(id) ==
  /\ pc = "done"
  /\ found' = [q |-> id] @@ search_by_id(airports, id)
  /\ UNCHANGED <<text, keepends, dat_text, pos, raw_lines, tokenized_lines, airports,
                 xplane_version, pc, err, disk, saved, gen, input>>
  /\ UNCHANGED airportVars
  /\ UNCHANGED gatewayVars
  /\ UNCHANGED editVars

\* ------------------------------------------------------------------ AptDat.__delitem__

\* Line 649, __delitem__ for a str key: the airports whose id is not the key.
\* apt.id raises IndexError for an airport without the field, and the list
\* stays as it was.
delitem(apts, key) ==
  IF \E i \in 1..Len(apts) : ~Airport_id(apts[i]).ok
  THEN [status |-> "IndexError", airports |-> apts]
  ELSE [status |-> "ok", airports |-> SelectSeq(apts, LAMBDA apt : Airport_id(apt).val # key)]

\* The identifiers removed.
DeleteKeys == {<<"KSEA">>, <<"ksea">>, <<"KBFI">>}

\* del container[key]
DelItem(key) ==
  /\ pc = "done"
  /\ removed.status = ""
  /\ airports' = delitem(airports, key).airports
  /\ removed' = [status |-> delitem(airports, key).status, key |-> key, before |-> airports]
  /\ found' = [status |-> "", apt |-> 0]
  /\ UNCHANGED <<text, keepends, dat_text, pos, raw_lines, tokenized_lines,
                 xplane_version, pc, err, disk, saved, gen, input>>
  /\ UNCHANGED <<other, fresh, out_ref, operands>>
  /\ UNCHANGED airportVars
  /\ UNCHANGED gatewayVars

\* ------------------------------------------------------------------ AptDat.__concat__, __add__, __iadd__

\* A Python list is an object: two containers may hold the same one.  The
\* model has three list objects: "self" is the airports list of the container
\* parsed (the variable airports), "other" that of the second container, and
\* "fresh" a list built by a combination.

\* x + y evaluated as x += y would be: the left operand itself, extended.
list_add_in_place(ref) == ref

\* Lines 667 and 683: list(x) + list(y) and x + [apt] build a new list object
\* and leave the object of the left operand (ref) alone.
list_add(ref) == "fresh"

\* The contents of the list object ref.
ListOf(ref) ==
  CASE ref = "self" -> airports
    [] ref = "other" -> other
    [] ref = "fresh" -> fresh

\* The list object ref gets the contents val; the other list objects keep theirs.
ListStore(ref, val) ==
  /\ airports' = IF ref = "self" THEN val ELSE airports
  /\ other' = IF ref = "other" THEN val ELSE other
  /\ fresh' = IF ref = "fresh" THEN val ELSE fresh

\* out = self.__concat__(other)
Concat ==
  /\ pc = "done"
  /\ out_ref = ""
  /\ out_ref' = list_add("self")
  /\ ListStore(list_add("self"), airports \o other)
  /\ operands' = [op |-> "concat", self |-> airports, other |-> other, apt |-> NoAirport,
                  appended |-> <<>>]
  /\ UNCHANGED <<text, keepends, dat_text, pos, raw_lines, tokenized_lines,
                 xplane_version, pc, err, disk, saved, gen, found, input, removed>>
  /\ UNCHANGED airportVars
  /\ UNCHANGED gatewayVars

\* out = self + apt
Add(apt) ==
  /\ pc = "done"
  /\ out_ref = ""
  /\ out_ref' = list_add("self")
  /\ ListStore(list_add("self"), airports \o <<apt>>)
  /\ operands' = [op |-> "add", self |-> airports, other |-> other, apt |-> apt,
                  appended |-> <<>>]
  /\ UNCHANGED <<text, keepends, dat_text, pos, raw_lines, tokenized_lines,
                 xplane_version, pc, err, disk, saved, gen, found, input, removed>>
  /\ UNCHANGED airportVars
  /\ UNCHANGED gatewayVars

\* The most airports appended to the container a combination returned.
MaxAppends == 2

\* out += apt, on the container a combination returned: line 691 appends to
\* the list object that container holds.
OutIAdd(apt) ==
  /\ out_ref # ""
  /\ Len(operands.appended) < MaxAppends
  /\ ListStore(out_ref, Append(ListOf(out_ref), apt))
  /\ operands' = [operands EXCEPT !.appended = Append(@, apt)]
  /\ UNCHANGED <<text, keepends, dat_text, pos, raw_lines, tokenized_lines,
                 xplane_version, pc, err, disk, saved, gen, found, input, removed, out_ref>>
  /\ UNCHANGED airportVars
  /\ UNCHANGED gatewayVars

\* ------------------------------------------------------------------ Airport.from_str

\* Airport.from_lines: the lines are kept as given, and every line that is not
\* blank is tokenized.  ValueError when a line does not tokenize.
from_lines(dat_lines, version) ==
  LET kept == SelectSeq(dat_lines, LAMBDA line : LStrip(line) # <<>>)
      tokenized == [i \in 1..Len(kept) |-> tokenize(kept[i])]
  IN  IF \E i \in 1..Len(kept) : tokenized[i].status = "ValueError"
      THEN [status |-> "ValueError", apt |-> Airport(<<>>, version, <<>>)]
      ELSE [status |-> "ok",
            apt |-> Airport(dat_lines, version, [i \in 1..Len(kept) |-> Tokens(tokenized[i])])]

\* Airport.from_str: the lines of the text that are not ignorable.
from_str(file_text) ==
  from_lines(SelectSeq(splitlines(file_text), LAMBDA l : ~raw_is_ignorable(l)), DEFAULT_VERSION)

FromStr ==
  /\ apt_pc = "text"
  /\ LET r == from_str(apt_text)
     IN  /\ apt_pc' = IF r.status = "ok" THEN "built" ELSE "raised"
         /\ airport' = r.apt
  /\ UNCHANGED <<apt_text, metadata, latitude, longitude>>
  /\ UNCHANGED containerVars
  /\ UNCHANGED gatewayVars
  /\ UNCHANGED derivedVars

\* Airport.from_lines on the lines of the text, as the caller split them.
FromLines ==
  /\ apt_pc = "text"
  /\ LET r == from_lines(splitlines(apt_text), DEFAULT_VERSION)
     IN  /\ apt_pc' = IF r.status = "ok" THEN "built" ELSE "raised"
         /\ airport' = r.apt
  /\ UNCHANGED <<apt_text, metadata, latitude, longitude>>
  /\ UNCHANGED containerVars
  /\ UNCHANGED gatewayVars
  /\ UNCHANGED derivedVars

\* ------------------------------------------------------------------ Airport.head, Airport.write_to_disk

\* itertools.islice(lines, 0, stop): the first stop lines, all of them when
\* there are fewer.
islice(lines, stop) == SubSeq(lines, 1, IF stop < Len(lines) THEN stop ELSE Len(lines))

\* Airport.head.  islice raises ValueError for a negative stop.
Airport_head(apt, num_lines) ==
  IF num_lines - 1 < 0
  THEN [status |-> "ValueError", val |-> <<>>]
  ELSE [status |-> "ok", val |-> Join(WED_LINE_ENDING, islice(apt.raw_lines, num_lines - 1))]

\* The most lines asked of Airport.head.
MaxHead == 4

GetHead(num_lines) ==
  /\ apt_pc = "built"
  /\ head_out' = [status |-> Airport_head(airport, num_lines).status,
                  num_lines |-> num_lines,
                  val |-> Airport_head(airport, num_lines).val]
  /\ UNCHANGED <<apt_text, apt_pc, airport, metadata, latitude, longitude>>
  /\ UNCHANGED <<apt_disk, id_out, name_out, elevation_out, has_atc_out,
                 row_codes, comm_freq, atc_network, tok_line, tokens_out>>
  /\ UNCHANGED containerVars
  /\ UNCHANGED gatewayVars

\* Text written piece after piece: a word written right after a word makes
\* one word with it.
RECURSIVE Glue(_)
Glue(s) ==
  IF Len(s) < 2 THEN s
  ELSE IF ~IsSpace(s[1]) /\ ~IsSpace(s[2])
       THEN Glue(<<s[1] \o s[2]>> \o SubSeq(s, 3, Len(s)))
       ELSE <<s[1]>> \o Glue(Tail(s))

\* Lines 316-320: the text Airport.write_to_disk writes.
AirportFileText(apt) ==
  Glue(<<"I">> \o WED_LINE_ENDING
       \o IntStr(apt.xplane_version) \o <<SP>> \o GENERATED_BY \o WED_LINE_ENDING \o WED_LINE_ENDING
       \o Airport_str(apt)
       \o IntStr(FILE_END) \o WED_LINE_ENDING)

\* Airport.write_to_disk, to a path that ends in .dat.
AirportWriteToDisk ==
  /\ apt_pc = "built"
  /\ apt_disk = <<>>
  /\ apt_disk' = AirportFileText(airport)
  /\ UNCHANGED <<apt_text, apt_pc, airport, metadata, latitude, longitude>>
  /\ UNCHANGED <<head_out, id_out, name_out, elevation_out, has_atc_out,
                 row_codes, comm_freq, atc_network, tok_line, tokens_out>>
  /\ UNCHANGED containerVars
  /\ UNCHANGED gatewayVars

\* ------------------------------------------------------------------ Airport.id, name, has_atc, elevation_ft_amsl

\* Airport.name: ' '.join(tokenized_lines[0][5:]); a slice beyond the end of
\* the list is empty.  IndexError when the airport has no line.
Airport_name(apt) ==
  IF apt.tokenized_lines = <<>> THEN [status |-> "IndexError", val |-> <<>>]
  ELSE [status |-> "ok",
        val |-> Join(<<SP>>, SubSeq(apt.tokenized_lines[1].fields, 5,
                                    Len(apt.tokenized_lines[1].fields)))]

\* Airport.has_atc: tokenized_lines[0][2] == '1'
Airport_has_atc(apt) ==
  IF apt.tokenized_lines = <<>> \/ Len(apt.tokenized_lines[1].fields) < 2
  THEN [status |-> "IndexError", val |-> FALSE]
  ELSE [status |-> "ok", val |-> apt.tokenized_lines[1].fields[2] = <<"1">>]

\* Airport.elevation_ft_amsl: float(tokenized_lines[0][1]), a float as twice
\* its value.
Airport_elevation_ft_amsl(apt) ==
  IF apt.tokenized_lines = <<>> \/ Len(apt.tokenized_lines[1].fields) < 1
  THEN [status |-> "IndexError", val |-> 0]
  ELSE IF ~int(apt.tokenized_lines[1].fields[1]).ok
  THEN [status |-> "ValueError", val |-> 0]
  ELSE [status |-> "ok", val |-> 2 * int(apt.tokenized_lines[1].fields[1]).val]

GetId ==
  /\ apt_pc = "built"
  /\ id_out' = [status |-> IF Airport_id(airport).ok THEN "ok" ELSE "IndexError",
                val |-> Airport_id(airport).val]
  /\ UNCHANGED <<apt_text, apt_pc, airport, metadata, latitude, longitude>>
  /\ UNCHANGED <<head_out, apt_disk, name_out, elevation_out, has_atc_out,
                 row_codes, comm_freq, atc_network, tok_line, tokens_out>>
  /\ UNCHANGED containerVars
  /\ UNCHANGED gatewayVars

GetName ==
  /\ apt_pc = "built"
  /\ name_out' = Airport_name(airport)
  /\ UNCHANGED <<apt_text, apt_pc, airport, metadata, latitude, longitude>>
  /\ UNCHANGED <<head_out, apt_disk, id_out, elevation_out, has_atc_out,
                 row_codes, comm_freq, atc_network, tok_line, tokens_out>>
  /\ UNCHANGED containerVars
  /\ UNCHANGED gatewayVars

GetHasAtc ==
  /\ apt_pc = "built"
  /\ has_atc_out' = Airport_has_atc(airport)
  /\ UNCHANGED <<apt_text, apt_pc, airport, metadata, latitude, longitude>>
  /\ UNCHANGED <<head_out, apt_disk, id_out, name_out, elevation_out,
                 row_codes, comm_freq, atc_network, tok_line, tokens_out>>
  /\ UNCHANGED containerVars
  /\ UNCHANGED gatewayVars

GetElevation ==
  /\ apt_pc = "built"
  /\ elevation_out' = Airport_elevation_ft_amsl(airport)
  /\ UNCHANGED <<apt_text, apt_pc, airport, metadata, latitude, longitude>>
  /\ UNCHANGED <<head_out, apt_disk, id_out, name_out, has_atc_out,
                 row_codes, comm_freq, atc_network, tok_line, tokens_out>>
  /\ UNCHANGED containerVars
  /\ UNCHANGED gatewayVars

\* ------------------------------------------------------------------ Airport.row_codes, has_row_code, has_comm_freq

\* Airport.row_codes, computed: the set of the row codes of the lines.
Airport_row_codes(apt) ==
  {apt.tokenized_lines[i].code : i \in 1..Len(apt.tokenized_lines)}

\* Airport.has_row_code for a collection of codes, given self.row_codes.
has_row_code(codes, present) == \E code \in codes : code \in present

\* Line 387: the codes has_comm_freq asks for.
comm_freq_codes ==
  {FREQUENCY_AWOS, FREQUENCY_CTAF, FREQUENCY_DELIVERY, FREQUENCY_GROUND,
   FREQUENCY_TOWER, FREQUENCY_APPROACH, FREQUENCY_CENTER}

\* An access to airport.row_codes, a cached property.
GetRowCodes ==
  /\ apt_pc = "built"
  /\ row_codes' = IF row_codes.status = "ok" THEN row_codes
                  ELSE [status |-> "ok", val |-> Airport_row_codes(airport)]
  /\ UNCHANGED <<apt_text, apt_pc, airport, metadata, latitude, longitude>>
  /\ UNCHANGED <<head_out, apt_disk, id_out, name_out, elevation_out, has_atc_out,
                 comm_freq, atc_network, tok_line, tokens_out>>
  /\ UNCHANGED containerVars
  /\ UNCHANGED gatewayVars

\* An access to airport.has_comm_freq: it reads self.row_codes, which is
\* computed unless cached.
GetHasCommFreq ==
  /\ apt_pc = "built"
  /\ row_codes' = IF row_codes.status = "ok" THEN row_codes
                  ELSE [status |-> "ok", val |-> Airport_row_codes(airport)]
  /\ comm_freq' = [status |-> "ok", val |-> has_row_code(comm_freq_codes, row_codes'.val)]
  /\ UNCHANGED <<apt_text, apt_pc, airport, metadata, latitude, longitude>>
  /\ UNCHANGED <<head_out, apt_disk, id_out, name_out, elevation_out, has_atc_out,
                 atc_network, tok_line, tokens_out>>
  /\ UNCHANGED containerVars
  /\ UNCHANGED gatewayVars

\* ------------------------------------------------------------------ AptDatLine.tokenize, called

\* AptDatLine.tokenize(tok_line)
Tokenize ==
  /\ tokens_out.status = ""
  /\ tokens_out' = tokenize(tok_line)
  /\ UNCHANGED <<apt_text, apt_pc, airport, metadata, latitude, longitude>>
  /\ UNCHANGED <<head_out, apt_disk, id_out, name_out, elevation_out, has_atc_out,
                 row_codes, comm_freq, atc_network, tok_line>>
  /\ UNCHANGED containerVars
  /\ UNCHANGED gatewayVars

\* ------------------------------------------------------------------ Airport.metadata

\* Line 342: the value of a metadata record, its fields 2 and beyond joined
\* by single spaces, the empty string when there is none.
MetadataValue(tokenized_line) ==
  IF Len(tokenized_line.fields) + 1 > 2
  THEN Join(<<SP>>, SubSeq(tokenized_line.fields, 2, Len(tokenized_line.fields)))
  ELSE <<>>

\* Airport.metadata, computed: a dictionary from MetadataKey to str.  A record
\* whose key is no MetadataKey is passed over (ValueError, suppressed); a
\* record without a key field raises IndexError.
Airport_metadata(a) ==
  LET F[k \in 0..Len(a.tokenized_lines)] ==
        IF k = 0 THEN [status |-> "ok", val |-> [x \in {} |-> <<>>]]
        ELSE LET out == F[k - 1]
                 tokenized_line == a.tokenized_lines[k]
                 key == tokenized_line.fields[1]
             IN  IF out.status # "ok" \/ tokenized_line.code # METADATA THEN out
                 ELSE IF Len(tokenized_line.fields) < 1
                 THEN [status |-> "IndexError", val |-> out.val]
                 ELSE IF Len(key) = 1 /\ key[1] \in MetadataKey
                 THEN [status |-> "ok",
                       val |-> [x \in DOMAIN out.val \cup {key[1]} |->
                                  IF x = key[1] THEN MetadataValue(tokenized_line) ELSE out.val[x]]]
                 ELSE out
  IN  F[Len(a.tokenized_lines)]

\* An access to airport.metadata, a cached property: computed unless a value is
\* cached; an exception caches nothing.
GetMetadata ==
  /\ apt_pc = "built"
  /\ metadata' = IF metadata.status = "ok" THEN metadata ELSE Airport_metadata(airport)
  /\ UNCHANGED <<apt_text, apt_pc, airport, latitude, longitude>>
  /\ UNCHANGED containerVars
  /\ UNCHANGED gatewayVars
  /\ UNCHANGED derivedVars

\* ------------------------------------------------------------------ Airport.latitude, Airport.longitude

\* A float is modelled by the integer that is twice its value, which is exact
\* for the numbers of the model's texts and their means.
\* float(s): ValueError unless s is a number.
float(s) ==
  IF int(s).ok THEN [status |-> "ok", val |-> 2 * int(s).val]
  ELSE [status |-> "ValueError", val |-> 0]

\* float(tokens[i]): IndexError when the line has no token i.
FloatField(tokens, i) ==
  IF i > Len(tokens.fields) THEN [status |-> "IndexError", val |-> 0]
  ELSE float(tokens.fields[i])

\* Airport._rwy_center: 0.5 * (float(tokens[start]) + float(tokens[end]))
rwy_center(rwy_tokens, start, end) ==
  LET a == FloatField(rwy_tokens, start)
      b == FloatField(rwy_tokens, end)
  IN  IF a.status # "ok" THEN a
      ELSE IF b.status # "ok" THEN b
      ELSE [status |-> "ok", val |-> (a.val + b.val) \div 2]

\* Airport._runway_lines
runway_lines(a) == SelectSeq(a.tokenized_lines, LAMBDA line_tokens : line_tokens.code \in runway_codes)

\* Airport._first_runway_tokens taking the last runway line, not the first.
first_runway_tokens_last(a) ==
  IF runway_lines(a) = <<>>
  THEN [status |-> IF Airport_id(a).ok THEN "AssertionError" ELSE "IndexError",
        tokens |-> [code |-> 0, fields |-> <<>>]]
  ELSE [status |-> "ok", tokens |-> runway_lines(a)[Len(runway_lines(a))]]

\* Airport._first_runway_tokens.  Without a runway line the assertion fails;
\* its message reads self.id, which raises IndexError first when the header
\* has no identifier field.
first_runway_tokens(a) ==
  IF runway_lines(a) = <<>>
  THEN [status |-> IF Airport_id(a).ok THEN "AssertionError" ELSE "IndexError",
        tokens |-> [code |-> 0, fields |-> <<>>]]
  ELSE [status |-> "ok", tokens |-> runway_lines(a)[1]]

\* Airport.latitude
Airport_latitude(a) ==
  LET rwy_0 == first_runway_tokens(a)
  IN  IF rwy_0.status # "ok" THEN [status |-> rwy_0.status, val |-> 0]
      ELSE IF rwy_0.tokens.code = LAND_RUNWAY THEN rwy_center(rwy_0.tokens, 9, 18)
      ELSE IF rwy_0.tokens.code = WATER_RUNWAY THEN rwy_center(rwy_0.tokens, 4, 7)
      ELSE FloatField(rwy_0.tokens, 2)

\* Airport.longitude
Airport_longitude(a) ==
  LET rwy_0 == first_runway_tokens(a)
  IN  IF rwy_0.status # "ok" THEN [status |-> rwy_0.status, val |-> 0]
      ELSE IF rwy_0.tokens.code = LAND_RUNWAY THEN rwy_center(rwy_0.tokens, 10, 19)
      ELSE IF rwy_0.tokens.code = WATER_RUNWAY THEN rwy_center(rwy_0.tokens, 5, 8)
      ELSE FloatField(rwy_0.tokens, 3)

GetLatitude ==
  /\ apt_pc = "built"
  /\ latitude' = Airport_latitude(airport)
  /\ UNCHANGED <<apt_text, apt_pc, airport, metadata, longitude>>
  /\ UNCHANGED containerVars
  /\ UNCHANGED gatewayVars
  /\ UNCHANGED derivedVars

GetLongitude ==
  /\ apt_pc = "built"
  /\ longitude' = Airport_longitude(airport)
  /\ UNCHANGED <<apt_text, apt_pc, airport, metadata, latitude>>
  /\ UNCHANGED containerVars
  /\ UNCHANGED gatewayVars
  /\ UNCHANGED derivedVars

\* ------------------------------------------------------------------ TaxiRouteNetwork, Airport.atc_network

\* The values of the IcaoWidth enumeration.
IcaoWidth == {"A", "B", "C", "D", "E", "F"}

\* The words of the model's texts that start with 'taxiway_', and their last
\* character: str.startswith('taxiway_') and taxiway_type[-1:].
TaxiwayWord == ("taxiway_C" :> "C") @@ ("taxiway_Z" :> "Z") @@ ("taxiway_CD" :> "D")

\* Line 276: TaxiRouteNode(id=int(tokens[4]), lon=float(tokens[2]),
\* lat=float(tokens[1])), the arguments evaluated in this order.
TaxiRouteNode(tokens) ==
  IF Len(tokens.fields) < 4
  THEN [status |-> "IndexError", node |-> [id |-> 0, lon |-> 0, lat |-> 0]]
  ELSE IF ~int(tokens.fields[4]).ok \/ float(tokens.fields[2]).status # "ok"
          \/ float(tokens.fields[1]).status # "ok"
  THEN [status |-> "ValueError", node |-> [id |-> 0, lon |-> 0, lat |-> 0]]
  ELSE [status |-> "ok",
        node |-> [id |-> int(tokens.fields[4]).val,
                  lon |-> float(tokens.fields[2]).val,
                  lat |-> float(tokens.fields[1]).val]]

NoEdge ==
  [name |-> <<>>, node_begin |-> 0, node_end |-> 0, is_runway |-> FALSE,
   one_way |-> FALSE, icao_width |-> "None"]

\* TaxiRouteEdge.from_tokenized_line.  icao_width is "None" for None.  The
\* taxiway type is a token of one word in the model's texts.
TaxiRouteEdge_from_tokenized_line(tokens) ==
  LET f == tokens.fields
  IN  IF Len(f) < 1 THEN [status |-> "IndexError", edge |-> NoEdge]
      ELSE IF ~int(f[1]).ok THEN [status |-> "ValueError", edge |-> NoEdge]
      ELSE IF Len(f) < 2 THEN [status |-> "IndexError", edge |-> NoEdge]
      ELSE IF ~int(f[2]).ok THEN [status |-> "ValueError", edge |-> NoEdge]
      ELSE IF Len(f) < 4 THEN [status |-> "IndexError", edge |-> NoEdge]
      ELSE LET taxiway_type == f[4][1]
           IN  [status |-> "ok",
                edge |-> [name |-> Join(<<SP>>, SubSeq(f, 5, Len(f))),
                          node_begin |-> int(f[1]).val,
                          node_end |-> int(f[2]).val,
                          one_way |-> f[3] = <<"oneway">>,
                          is_runway |-> taxiway_type \notin DOMAIN TaxiwayWord
                                        /\ taxiway_type = "runway",
                          icao_width |-> IF taxiway_type \in DOMAIN TaxiwayWord
                                            /\ TaxiwayWord[taxiway_type] \in IcaoWidth
                                         THEN TaxiwayWord[taxiway_type]
                                         ELSE "None"]]

\* Lines 274-278: the dictionary of the nodes, from node id to node; a later
\* record with the id of an earlier one takes its place.
TaxiNodes(lines) ==
  LET F[k \in 0..Len(lines)] ==
        IF k = 0 THEN [status |-> "ok", nodes |-> [x \in {} |-> 0]]
        ELSE LET acc == F[k - 1]
                 made == TaxiRouteNode(lines[k])
             IN  IF acc.status # "ok" \/ lines[k].code # TAXI_ROUTE_NODE THEN acc
                 ELSE IF made.status # "ok" THEN [status |-> made.status, nodes |-> acc.nodes]
                 ELSE [status |-> "ok",
                       nodes |-> [x \in DOMAIN acc.nodes \cup {made.node.id} |->
                                    IF x = made.node.id THEN made.node ELSE acc.nodes[x]]]
  IN  F[Len(lines)]

\* Lines 279-281: the list of the edges.
TaxiEdges(lines) ==
  LET F[k \in 0..Len(lines)] ==
        IF k = 0 THEN [status |-> "ok", edges |-> <<>>]
        ELSE LET acc == F[k - 1]
                 made == TaxiRouteEdge_from_tokenized_line(lines[k])
             IN  IF acc.status # "ok" \/ lines[k].code # TAXI_ROUTE_EDGE THEN acc
                 ELSE IF made.status # "ok" THEN [status |-> made.status, edges |-> acc.edges]
                 ELSE [status |-> "ok", edges |-> Append(acc.edges, made.edge)]
  IN  F[Len(lines)]

\* TaxiRouteNetwork.from_tokenized_lines: the nodes first, then the edges.
TaxiRouteNetwork_from_tokenized_lines(lines) ==
  IF TaxiNodes(lines).status # "ok"
  THEN [status |-> TaxiNodes(lines).status, nodes |-> <<>>, edges |-> <<>>]
  ELSE IF TaxiEdges(lines).status # "ok"
  THEN [status |-> TaxiEdges(lines).status, nodes |-> <<>>, edges |-> <<>>]
  ELSE [status |-> "ok", nodes |-> TaxiNodes(lines).nodes, edges |-> TaxiEdges(lines).edges]

\* An access to airport.atc_network, a cached property: computed unless a
\* value is cached; an exception caches nothing.
GetAtcNetwork ==
  /\ apt_pc = "built"
  /\ atc_network' = IF atc_network.status = "ok" THEN atc_network
                    ELSE TaxiRouteNetwork_from_tokenized_lines(airport.tokenized_lines)
  /\ UNCHANGED <<apt_text, apt_pc, airport, metadata, latitude, longitude>>
  /\ UNCHANGED <<head_out, apt_disk, id_out, name_out, elevation_out, has_atc_out,
                 row_codes, comm_freq, tok_line, tokens_out>>
  /\ UNCHANGED containerVars
  /\ UNCHANGED gatewayVars

\* ------------------------------------------------------------------ Airport: the line buffers

\* The fields raw_lines and tokenized_lines of the dataclass are plain
\* attributes: airport.raw_lines = b.raw_lines; airport.tokenized_lines =
\* b.tokenized_lines gives the Airport the buffers of the Airport b built from
\* file_text.  Nothing else of the object changes: what cached_property stored
\* in the instance stays.
ReplaceLines(file_text) ==
  /\ apt_pc = "built"
  /\ from_str(file_text).status = "ok"
  /\ airport' = [airport EXCEPT !.raw_lines = from_str(file_text).apt.raw_lines,
                                !.tokenized_lines = from_str(file_text).apt.tokenized_lines]
  /\ UNCHANGED <<apt_text, apt_pc, metadata, latitude, longitude>>
  /\ UNCHANGED containerVars
  /\ UNCHANGED gatewayVars
  /\ UNCHANGED derivedVars

\* ------------------------------------------------------------------ gateway: _gateway_json_request

\* Line 229: the status codes that make make_req raise HTTPError.
HTTP_ERROR_FROM == 300
status_is_error_above(status_code) == status_code > HTTP_ERROR_FROM
status_is_error(status_code) == status_code >= HTTP_ERROR_FROM

\* make_req on what the attempt met: requests.get raised (kind
\* "ConnectionError"), or answered with a status code and a JSON body, body
\* "none" for a body without expected_key.
make_req(met) ==
  IF met.kind # "response" THEN [status |-> met.kind, val |-> ""]
  ELSE IF status_is_error(met.status_code) THEN [status |-> "HTTPError", val |-> ""]
  ELSE IF met.body = "none" THEN [status |-> "KeyError", val |-> ""]
  ELSE [status |-> "ok", val |-> met.body]

\* Lines 220-224: one pass of the loop of retry, for attempted in
\* range(max_tries): the action returns, or it raises and sleep(attempted)
\* is called.
RetryAttempt(met) ==
  /\ req_pc = "loop"
  /\ attempted < retries_on_error
  /\ responses' = Append(responses, met)
  /\ IF make_req(met).status = "ok"
     THEN /\ req_pc' = "returned"
          /\ req_out' = make_req(met)
          /\ UNCHANGED <<attempted, slept>>
     ELSE /\ slept' = Append(slept, attempted)
          /\ attempted' = attempted + 1
          /\ UNCHANGED <<req_pc, req_out>>
  /\ UNCHANGED retries_on_error
  /\ UNCHANGED packsVars
  /\ UNCHANGED containerVars
  /\ UNCHANGED airportVars

\* Line 225: the loop is over; the action is called once more, outside the
\* try statement: what it raises leaves retry.
RetryLast(met) ==
  /\ req_pc = "loop"
  /\ attempted >= retries_on_error
  /\ responses' = Append(responses, met)
  /\ req_pc' = IF make_req(met).status = "ok" THEN "returned" ELSE "raised"
  /\ req_out' = make_req(met)
  /\ UNCHANGED <<retries_on_error, attempted, slept>>
  /\ UNCHANGED packsVars
  /\ UNCHANGED containerVars
  /\ UNCHANGED airportVars

\* ------------------------------------------------------------------ gateway: recommended_scenery_packs

\* airports(): the dictionary {apt['AirportCode']: apt for apt in ...}, as
\* the sequence of its items: a code met again keeps its place and takes the
\* later value.
airports_dict(answer) ==
  LET F[k \in 0..Len(answer)] ==
        IF k = 0 THEN <<>>
        ELSE LET acc == F[k - 1]
                 apt == answer[k]
             IN  IF \E i \in 1..Len(acc) : acc[i].AirportCode = apt.AirportCode
                 THEN [i \in 1..Len(acc) |->
                         IF acc[i].AirportCode = apt.AirportCode THEN apt ELSE acc[i]]
                 ELSE Append(acc, apt)
  IN  F[Len(answer)]

\* Lines 144-147: if selective_apt_ids: the dictionary is cut down to the
\* ids in it.  None and the empty list are both false.
selected(items, ids) ==
  IF ~ids.none /\ Len(ids.ids) > 0
  THEN SelectSeq(items, LAMBDA apt : \E i \in 1..Len(ids.ids) : ids.ids[i] = apt.AirportCode)
  ELSE items

\* Line 150: not airport['Deprecated'] and airport['RecommendedSceneryId'];
\* the scenery id is 0 when the airport has none.
is_recommended(apt) == ~apt.Deprecated /\ apt.RecommendedSceneryId # 0

\* One next() on the generator.  The first one runs lines 143-147: airports()
\* raises (airports_ok FALSE) or returns the dictionary.  Then the loop of
\* lines 149-153 goes on from where it was suspended to the next airport that
\* is recommended: scenery_pack downloads its pack and raises (pack_ok FALSE)
\* or returns it, and the pack is yielded; with no such airport left the
\* generator ends.
PacksNext(airports_ok, pack_ok) ==
  /\ packs_pc \in {"created", "suspended"}
  /\ IF packs_pc = "created" /\ ~airports_ok
     THEN /\ packs_pc' = "raised"
          /\ UNCHANGED <<all_airports, apt_pos, requested, yielded>>
     ELSE LET items == IF packs_pc = "created"
                       THEN selected(airports_dict(listing), selective_apt_ids)
                       ELSE all_airports
              rest == {i \in (apt_pos + 1)..Len(items) : is_recommended(items[i])}
          IN  /\ all_airports' = items
              /\ IF rest = {}
                 THEN /\ packs_pc' = "done"
                      /\ apt_pos' = Len(items)
                      /\ UNCHANGED <<requested, yielded>>
                 ELSE /\ apt_pos' = SetMin(rest)
                      /\ requested' = Append(requested, items[SetMin(rest)].RecommendedSceneryId)
                      /\ IF pack_ok
                         THEN /\ packs_pc' = "suspended"
                              /\ yielded' = Append(yielded, items[SetMin(rest)].AirportCode)
                         ELSE /\ packs_pc' = "raised"
                              /\ UNCHANGED yielded
  /\ UNCHANGED <<listing, selective_apt_ids>>
  /\ UNCHANGED retryVars
  /\ UNCHANGED containerVars
  /\ UNCHANGED airportVars

\* ------------------------------------------------------------------ inputs

HdrA == <<"1", SP, "0", SP, "1", SP, "0", SP, "KSEA", SP, "Sea">>
HdrB == <<"16", SP, SP, "0", SP, "0", SP, "0", SP, "kbfi">>
HdrShort == <<"17">>
Meta == <<"1302", SP, "city", SP, "Seattle">>
MetaEmpty == <<"1302", SP, "city">>
End == <<"99">>
Blank == <<SP>>
Unknown == <<"9999", SP, "x">>
NonInt == <<"abc">>

BodyLines == {HdrA, HdrB, HdrShort, Meta, MetaEmpty, End, Blank, Unknown, NonInt}

\* No file header, or the two lines of one.
FileHeaders == {<<>>, <<"A", NL, "1050", SP>> \o GENERATED_BY \o <<NL>>}

RECURSIVE LinesText(_)
LinesText(lines) ==
  IF lines = <<>> THEN <<>> ELSE lines[1] \o <<NL>> \o LinesText(Tail(lines))

Texts ==
  {h \o LinesText(b) : h \in FileHeaders,
                       b \in UNION {[1..n -> BodyLines] : n \in 0..MaxLines}}

\* The lines of an airport after its header line.
Land == <<"100", SP, "30", SP, "1", SP, "0", SP, "0", SP, "0", SP, "0", SP, "0", SP, "16L",
         SP, "10", SP, "-10", SP, "0", SP, "0", SP, "0", SP, "0", SP, "0", SP, "0", SP, "34R",
         SP, "30", SP, "-20">>
Water == <<"101", SP, "40", SP, "0", SP, "07", SP, "20", SP, "0", SP, "25", SP, "40", SP, "10">>
Helipad == <<"102", SP, "H1", SP, "40", SP, "-20", SP, "0">>
HelipadShort == <<"102", SP, "H2">>
MetaUnknown == <<"1302", SP, "foo", SP, "bar">>
MetaLong == <<"1302", SP, "country", SP, SP, "United", SP, "States">>
MetaBare == <<"1302">>

AirportLines == {Land, Water, Helipad, HelipadShort, Meta, MetaEmpty, MetaUnknown, MetaLong, MetaBare}

\* The most lines an airport text holds after its header line.
MaxAirportLines == 3

AirportTexts ==
  {Join(<<NL>>, <<h>> \o b) : h \in {HdrA, HdrShort},
                              b \in UNION {[1..n -> AirportLines] : n \in 0..MaxAirportLines}}

\* No generator of recommended packs, no Gateway request.
PacksIdle ==
  /\ listing = <<>>
  /\ selective_apt_ids = [none |-> TRUE, ids |-> <<>>]
  /\ packs_pc = "idle"
  /\ all_airports = <<>>
  /\ apt_pos = 0
  /\ requested = <<>>
  /\ yielded = <<>>
RetryIdle ==
  /\ retries_on_error = 0
  /\ req_pc = "idle"
  /\ attempted = 0
  /\ responses = <<>>
  /\ slept = <<>>
  /\ req_out = [status |-> "", val |-> ""]
GatewayIdle == PacksIdle /\ RetryIdle

\* No combination, no removal.
EditIdle ==
  /\ removed = [status |-> "", key |-> <<>>, before |-> <<>>]
  /\ other = <<>>
  /\ fresh = <<>>
  /\ out_ref = ""
  /\ operands = [op |-> "", self |-> <<>>, other |-> <<>>, apt |-> NoAirport, appended |-> <<>>]

DerivedIdle ==
  /\ head_out = [status |-> "", num_lines |-> 0, val |-> <<>>]
  /\ apt_disk = <<>>
  /\ id_out = [status |-> "", val |-> <<>>]
  /\ name_out = [status |-> "", val |-> <<>>]
  /\ elevation_out = [status |-> "", val |-> 0]
  /\ has_atc_out = [status |-> "", val |-> FALSE]
  /\ row_codes = [status |-> "", val |-> {}]
  /\ comm_freq = [status |-> "", val |-> FALSE]
  /\ atc_network = [status |-> "", nodes |-> <<>>, edges |-> <<>>]
  /\ tok_line = <<>>
  /\ tokens_out = [status |-> "", code |-> 0, fields |-> <<>>]

ContainerIdle ==
  /\ text = <<>>
  /\ input = <<>>
  /\ keepends = FALSE
  /\ dat_text = <<>>
  /\ pos = 0
  /\ raw_lines = <<>>
  /\ tokenized_lines = <<>>
  /\ airports = <<>>
  /\ xplane_version = DEFAULT_VERSION
  /\ pc = "idle"
  /\ err = ""
  /\ disk = <<>>
  /\ saved = <<>>
  /\ gen = 0
  /\ found = [status |-> "", apt |-> 0]
  /\ EditIdle

AirportIdle ==
  /\ apt_text = <<>>
  /\ apt_pc = "idle"
  /\ airport = NoAirport
  /\ metadata = [status |-> "", val |-> <<>>]
  /\ latitude = [status |-> "", val |-> 0]
  /\ longitude = [status |-> "", val |-> 0]
  /\ DerivedIdle

InitAirport ==
  /\ GatewayIdle
  /\ ContainerIdle
  /\ apt_text \in AirportTexts
  /\ apt_pc = "text"
  /\ airport = NoAirport
  /\ metadata = [status |-> "", val |-> <<>>]
  /\ latitude = [status |-> "", val |-> 0]
  /\ longitude = [status |-> "", val |-> 0]
  /\ DerivedIdle

\* The texts of an airport that is built and written: a header line, then
\* metadata, blank and file-terminator lines and lines with an unknown code.
FileAirportTexts ==
  {Join(<<NL>>, <<h>> \o b) : h \in {HdrA, HdrShort},
                              b \in UNION {[1..n -> {Meta, MetaEmpty, Blank, End, Unknown}] :
                                             n \in 0..MaxAirportLines}}

InitAirportFile ==
  /\ GatewayIdle
  /\ ContainerIdle
  /\ apt_text \in FileAirportTexts
  /\ apt_pc = "text"
  /\ airport = NoAirport
  /\ metadata = [status |-> "", val |-> <<>>]
  /\ latitude = [status |-> "", val |-> 0]
  /\ longitude = [status |-> "", val |-> 0]
  /\ DerivedIdle

NextAirportFile ==
  \/ FromStr
  \/ FromLines
  \/ \E num_lines \in 0..MaxHead : GetHead(num_lines)
  \/ AirportWriteToDisk

\* Building an Airport from a text or from lines, reading its first lines and
\* writing it to a file.
SpecAirportFile == InitAirportFile /\ [][NextAirportFile]_vars

\* Header lines with no field, with one field, and so on up to a name of two
\* words; and one whose elevation is no number.
HdrFull == <<"1", SP, "10", SP, "1", SP, "0", SP, "KSEA", SP, "Sea", SP, "Tac">>
HdrNoNumber == <<"1", SP, "abc", SP, "0">>
HeaderLines == {SubSeq(HdrFull, 1, 2 * n + 1) : n \in 0..6} \cup {HdrNoNumber}

\* The texts of an airport whose header properties are read: a header line,
\* then at most MaxHeaderBody metadata lines.
MaxHeaderBody == 1
HeaderTexts ==
  {Join(<<NL>>, <<h>> \o b) : h \in HeaderLines,
                              b \in UNION {[1..n -> {Meta, MetaEmpty}] : n \in 0..MaxHeaderBody}}

InitHeader ==
  /\ GatewayIdle
  /\ ContainerIdle
  /\ apt_text \in HeaderTexts
  /\ apt_pc = "text"
  /\ airport = NoAirport
  /\ metadata = [status |-> "", val |-> <<>>]
  /\ latitude = [status |-> "", val |-> 0]
  /\ longitude = [status |-> "", val |-> 0]
  /\ DerivedIdle

NextHeader ==
  \/ FromStr
  \/ GetId
  \/ GetName
  \/ GetHasAtc
  \/ GetElevation

\* Building an Airport from a text and reading the properties that come from
\* its header line.
SpecHeader == InitHeader /\ [][NextHeader]_vars

\* Frequency records, 8.33 kHz channel records, and the texts of an airport
\* with some of them.
FreqAwos == <<"50", SP, "10", SP, "AWOS">>
FreqCenter == <<"56", SP, "20", SP, "CTR">>
FreqUnicom == <<"57", SP, "30", SP, "UNICOM">>
ChannelAwos == <<"1050", SP, "10", SP, "AWOS">>
ChannelUnicom == <<"1057", SP, "30", SP, "UNICOM">>
FrequencyLines == {FreqAwos, FreqCenter, FreqUnicom, ChannelAwos, ChannelUnicom, Meta}
FrequencyTexts ==
  {Join(<<NL>>, <<HdrA>> \o b) : b \in UNION {[1..n -> FrequencyLines] : n \in 0..MaxAirportLines}}

InitFrequency ==
  /\ GatewayIdle
  /\ ContainerIdle
  /\ apt_text \in FrequencyTexts
  /\ apt_pc = "text"
  /\ airport = NoAirport
  /\ metadata = [status |-> "", val |-> <<>>]
  /\ latitude = [status |-> "", val |-> 0]
  /\ longitude = [status |-> "", val |-> 0]
  /\ DerivedIdle

NextFrequency ==
  \/ FromStr
  \/ GetRowCodes
  \/ GetHasCommFreq

\* Building an Airport from a text and asking whether it has communication
\* frequencies.
SpecFrequency == InitFrequency /\ [][NextFrequency]_vars

\* Lines for the tokenizer: a row code and at most MaxFields fields, with runs
\* of spaces and tabs between them and around them; and blank lines.
MaxFields == 2
MaxCacheLines == 1
MaxRetries == 3
MaxGatewayAirports == 2
Separators == {<<SP>>, <<TAB>>, <<SP, SP>>, <<SP, TAB>>, <<TAB, SP>>}
Margins == {<<>>, <<SP>>, <<TAB>>, <<NL>>}
RECURSIVE Separated(_, _)
Separated(words, seps) ==
  IF Len(words) = 1 THEN words
  ELSE <<words[1]>> \o seps[1] \o Separated(Tail(words), Tail(seps))
TokenizeLines ==
  {<<>>, <<SP>>, <<TAB>>, <<SP, TAB, NL>>}
  \cup UNION {{before \o Separated(<<"1">> \o f, seps) \o after :
                 before \in {<<>>, <<SP>>, <<TAB>>}, after \in Margins,
                 f \in [1..n -> {"0", "KSEA"}], seps \in [1..n -> Separators]} :
               n \in 0..MaxFields}

InitTokenize ==
  /\ GatewayIdle
  /\ ContainerIdle
  /\ apt_text = <<>>
  /\ apt_pc = "idle"
  /\ airport = NoAirport
  /\ metadata = [status |-> "", val |-> <<>>]
  /\ latitude = [status |-> "", val |-> 0]
  /\ longitude = [status |-> "", val |-> 0]
  /\ head_out = [status |-> "", num_lines |-> 0, val |-> <<>>]
  /\ apt_disk = <<>>
  /\ id_out = [status |-> "", val |-> <<>>]
  /\ name_out = [status |-> "", val |-> <<>>]
  /\ elevation_out = [status |-> "", val |-> 0]
  /\ has_atc_out = [status |-> "", val |-> FALSE]
  /\ row_codes = [status |-> "", val |-> {}]
  /\ comm_freq = [status |-> "", val |-> FALSE]
  /\ atc_network = [status |-> "", nodes |-> <<>>, edges |-> <<>>]
  /\ tok_line \in TokenizeLines
  /\ tokens_out = [status |-> "", code |-> 0, fields |-> <<>>]

NextTokenize == Tokenize

\* Tokenizing one line.
SpecTokenize == InitTokenize /\ [][NextTokenize]_vars

\* Taxi-route node and edge records, and the texts of an airport with some
\* of them.
NodeShort == <<"1201", SP, "10", SP, "-20", SP, "5">>
NodeShortNamed == <<"1201", SP, "10", SP, "-20", SP, "5", SP, "7", SP, "x">>
NodeFive == <<"1201", SP, "10", SP, "-20", SP, "both", SP, "5", SP, "A">>
NodeFiveAgain == <<"1201", SP, "30", SP, "-10", SP, "both", SP, "5", SP, "B">>
NodeSix == <<"1201", SP, "30", SP, "-10", SP, "both", SP, "6">>
EdgeTaxiway == <<"1202", SP, "5", SP, "6", SP, "oneway", SP, "taxiway_C", SP, "MyTaxiway">>
EdgeRunway == <<"1202", SP, "6", SP, "5", SP, "twoway", SP, "runway", SP, "16L", SP, "34R">>
EdgeShort == <<"1202", SP, "5", SP, "6">>
EdgeUnknownWidth == <<"1202", SP, "6", SP, "7", SP, "twoway", SP, "taxiway_Z">>
EdgeTwoLetters == <<"1202", SP, "5", SP, "7", SP, "oneway", SP, "taxiway_CD", SP, "Alpha">>
TaxiLines ==
  {NodeShort, NodeShortNamed, NodeFive, NodeFiveAgain, NodeSix, EdgeTaxiway, EdgeRunway, EdgeShort,
   EdgeUnknownWidth, EdgeTwoLetters}
TaxiTexts ==
  {Join(<<NL>>, <<HdrA>> \o b) : b \in UNION {[1..n -> TaxiLines] : n \in 0..MaxAirportLines}}

InitTaxi ==
  /\ GatewayIdle
  /\ ContainerIdle
  /\ apt_text \in TaxiTexts
  /\ apt_pc = "text"
  /\ airport = NoAirport
  /\ metadata = [status |-> "", val |-> <<>>]
  /\ latitude = [status |-> "", val |-> 0]
  /\ longitude = [status |-> "", val |-> 0]
  /\ DerivedIdle

NextTaxi ==
  \/ FromStr
  \/ GetAtcNetwork

\* Building an Airport from a text and reading its taxi-route network.
SpecTaxi == InitTaxi /\ [][NextTaxi]_vars

\* The texts of an Airport whose derived properties are read, and of the
\* Airports whose buffers replace its own.
HelipadNorth == <<"102", SP, "H2", SP, "10", SP, "-10", SP, "0">>
CacheLines == {Helipad, HelipadNorth, Meta, NodeFive}
CacheTexts ==
  {Join(<<NL>>, <<HdrA>> \o b) : b \in UNION {[1..n -> CacheLines] : n \in 0..MaxCacheLines}}

InitCache ==
  /\ GatewayIdle
  /\ ContainerIdle
  /\ apt_text \in CacheTexts
  /\ apt_pc = "text"
  /\ airport = NoAirport
  /\ metadata = [status |-> "", val |-> <<>>]
  /\ latitude = [status |-> "", val |-> 0]
  /\ longitude = [status |-> "", val |-> 0]
  /\ DerivedIdle

NextCache ==
  \/ FromStr
  \/ GetMetadata
  \/ GetLatitude
  \/ GetLongitude
  \/ GetRowCodes
  \/ GetAtcNetwork
  \/ \E t \in CacheTexts : ReplaceLines(t)

\* Building an Airport, reading its derived properties and replacing its line
\* buffers, in any order.
SpecCache == InitCache /\ [][NextCache]_vars

\* What an attempt of a request can meet.
StatusCodes == {200, 299, 300, 301}
Bodies == {"none", "airports", "other airports"}
Met ==
  {[kind |-> "response", status_code |-> c, body |-> b] : c \in StatusCodes, b \in Bodies}
  \cup {[kind |-> "ConnectionError", status_code |-> 0, body |-> "none"]}

InitRetry ==
  /\ ContainerIdle
  /\ AirportIdle
  /\ PacksIdle
  /\ retries_on_error \in 0..MaxRetries
  /\ req_pc = "loop"
  /\ attempted = 0
  /\ responses = <<>>
  /\ slept = <<>>
  /\ req_out = [status |-> "", val |-> ""]

NextRetry ==
  \/ \E met \in Met : RetryAttempt(met)
  \/ \E met \in Met : RetryLast(met)

\* One request to the Gateway, with its retries.
SpecRetry == InitRetry /\ [][NextRetry]_vars

\* The airports of the Gateway: the first MaxGatewayAirports codes or fewer,
\* each deprecated or not, with a recommended scenery or none.
GatewayCodes == <<"KSEA", "KBFI", "KPDX", "KLAX">>
SceneryIds == <<11, 12, 13, 14>>
Listings ==
  UNION {{[i \in 1..n |-> [AirportCode |-> GatewayCodes[i], Deprecated |-> d[i],
                           RecommendedSceneryId |-> IF r[i] THEN SceneryIds[i] ELSE 0]] :
            d \in [1..n -> BOOLEAN], r \in [1..n -> BOOLEAN]} : n \in 0..MaxGatewayAirports}
SelectiveIds ==
  {[none |-> TRUE, ids |-> <<>>], [none |-> FALSE, ids |-> <<>>],
   [none |-> FALSE, ids |-> <<"KSEA">>], [none |-> FALSE, ids |-> <<"KBFI", "KSEA">>],
   [none |-> FALSE, ids |-> <<"KXXX">>]}

InitPacks ==
  /\ ContainerIdle
  /\ AirportIdle
  /\ RetryIdle
  /\ listing \in Listings
  /\ selective_apt_ids \in SelectiveIds
  /\ packs_pc = "created"
  /\ all_airports = <<>>
  /\ apt_pos = 0
  /\ requested = <<>>
  /\ yielded = <<>>

NextPacks == \E airports_ok \in BOOLEAN, pack_ok \in BOOLEAN : PacksNext(airports_ok, pack_ok)

\* Iterating the generator of the recommended scenery packs.
SpecPacks == InitPacks /\ [][NextPacks]_vars

NextAirport ==
  \/ FromStr
  \/ GetMetadata
  \/ GetLatitude
  \/ GetLongitude

\* Building an Airport from a text and reading its derived properties.
SpecAirport == InitAirport /\ [][NextAirport]_vars

Init ==
  /\ GatewayIdle
  /\ AirportIdle
  /\ text \in Texts
  /\ input = text
  /\ keepends \in BOOLEAN
  /\ dat_text = <<>>
  /\ pos = 0
  /\ raw_lines = <<>>
  /\ tokenized_lines = <<>>
  /\ airports = <<>>
  /\ xplane_version = DEFAULT_VERSION
  /\ pc = "start"
  /\ err = ""
  /\ disk = <<>>
  /\ saved = <<>>
  /\ gen = 0
  /\ found = [status |-> "", apt |-> 0]
  /\ EditIdle

Next ==
  \/ ParseBegin
  \/ ParseLine
  \/ ParseFinish
  \/ WriteToDisk
  \/ \E k \in BOOLEAN : Reload(k)

\* Parsing a file, writing the container and parsing what was written.
Spec == Init /\ [][Next]_vars

NextSearch ==
  \/ ParseBegin
  \/ ParseLine
  \/ ParseFinish
  \/ \E id \in QueryIds : SearchById(id)

\* Parsing a file and looking up identifiers in the container.
SpecSearch == Init /\ [][NextSearch]_vars

\* The texts of the container combined: at most MaxCombineLines lines.
MaxCombineLines == 2
CombineTexts ==
  {LinesText(b) : b \in UNION {[1..n -> {HdrA, HdrB, Meta}] : n \in 0..MaxCombineLines}}

\* Airports built with Airport.from_str, and the airports lists of a second
\* container, built with AptDat() and +=.
SampleAirports == {from_str(HdrA).apt, from_str(HdrB \o <<NL>> \o Meta).apt}
OtherLists == {<<>>} \cup {<<a>> : a \in SampleAirports}

InitCombine ==
  /\ GatewayIdle
  /\ AirportIdle
  /\ text \in CombineTexts
  /\ input = text
  /\ keepends = FALSE
  /\ dat_text = <<>>
  /\ pos = 0
  /\ raw_lines = <<>>
  /\ tokenized_lines = <<>>
  /\ airports = <<>>
  /\ xplane_version = DEFAULT_VERSION
  /\ pc = "start"
  /\ err = ""
  /\ disk = <<>>
  /\ saved = <<>>
  /\ gen = 0
  /\ found = [status |-> "", apt |-> 0]
  /\ removed = [status |-> "", key |-> <<>>, before |-> <<>>]
  /\ other \in OtherLists
  /\ fresh = <<>>
  /\ out_ref = ""
  /\ operands = [op |-> "", self |-> <<>>, other |-> <<>>, apt |-> NoAirport, appended |-> <<>>]

NextCombine ==
  \/ ParseBegin
  \/ ParseLine
  \/ ParseFinish
  \/ Concat
  \/ \E apt \in SampleAirports : Add(apt)
  \/ \E apt \in SampleAirports : OutIAdd(apt)

\* Parsing a file and combining the container with a second container or with
\* an airport.
SpecCombine == InitCombine /\ [][NextCombine]_vars

NextDelete ==
  \/ ParseBegin
  \/ ParseLine
  \/ ParseFinish
  \/ \E key \in DeleteKeys : DelItem(key)
  \/ \E id \in QueryIds : SearchById(id)

\* Parsing a file, removing airports by identifier and looking identifiers up.
SpecDelete == Init /\ [][NextDelete]_vars

\* ------------------------------------------------------------------ properties of parsing

\* The positions of lo..hi that are in S, in ascending order.
IdxSeq(lo, hi, S) ==
  LET F[k \in (lo - 1)..hi] ==
        IF k < lo THEN <<>>
        ELSE IF k \in S THEN Append(F[k - 1], k) ELSE F[k - 1]
  IN  IF hi < lo THEN <<>> ELSE F[hi]

\* The first word of a line, "" for a blank line.
LeadWord(line) == IF Strip(line) = <<>> THEN "" ELSE Strip(line)[1]
IsBlankLine(line) == Strip(line) = <<>>
IsHeaderLine(line) == LeadWord(line) \in {"1", "16", "17"}
IsFileEndLine(line) == LeadWord(line) = "99"

\* The body lines of the file parsed, once the parse is done: the positions
\* of its non-blank lines and of its airport-header lines.
NonBlankIdx == IdxSeq(1, Len(dat_text), {i \in 1..Len(dat_text) : ~IsBlankLine(dat_text[i])})
HeaderIdx == IdxSeq(1, Len(dat_text), {i \in 1..Len(dat_text) : IsHeaderLine(dat_text[i])})
StartsWithHeader == NonBlankIdx # <<>> /\ IsHeaderLine(dat_text[NonBlankIdx[1]])

\* The non-blank lines from the k-th header line up to the next header line
\* (or the end of the file), as positions in dat_text.
Section(k) ==
  IdxSeq(HeaderIdx[k],
         IF k < Len(HeaderIdx) THEN HeaderIdx[k + 1] - 1 ELSE Len(dat_text),
         {i \in 1..Len(dat_text) : ~IsBlankLine(dat_text[i])})

\* Section(k), without the file terminator when that is the last non-blank
\* line of the file.
SectionKept(k) ==
  LET sec == Section(k)
  IN  IF k = Len(HeaderIdx) /\ IsFileEndLine(dat_text[sec[Len(sec)]])
      THEN SubSeq(sec, 1, Len(sec) - 1)
      ELSE sec

\* The airport holds exactly the lines of dat_text at the positions idx.
HoldsLines(apt, idx) ==
  /\ apt.raw_lines = [j \in 1..Len(idx) |-> dat_text[idx[j]]]
  /\ apt.tokenized_lines = [j \in 1..Len(idx) |-> Tokens(tokenize(dat_text[idx[j]]))]

C3_HeaderInvariant ==
  pc = "done" =>
    \A i \in 1..Len(airports) :
      /\ airports[i].tokenized_lines # <<>>
      /\ airports[i].tokenized_lines[1].code \in {1, 16, 17}

\* C4 as stated: a file without any airport-header line parses to a container
\* with no airport.
C4_NoHeaderNoAirport ==
  (pc = "done" /\ gen = 0 /\ \A i \in 1..Len(dat_text) : ~IsHeaderLine(dat_text[i])) =>
    Len(airports) = 0

\* C5 as stated: the two-line file header followed by the file-terminator line
\* and nothing else parses to a container with no airport.
HeaderAndTerminatorOnly ==
  \E h \in FileHeaders : h # <<>> /\ input \in {h \o <<"99">>, h \o <<"99", NL>>}
C5_HeaderTerminatorEmpty ==
  (pc = "done" /\ gen = 0 /\ HeaderAndTerminatorOnly) => Len(airports) = 0

\* C6 as stated: no single line makes the parse of the file fail, whether its
\* leading token is an integer outside the RowCode enumeration or no integer.
C6_NoLineAbortsParse ==
  ~(pc = "raised" /\ err = "ValueError")

\* ------------------------------------------------------------------ properties of serialization

\* A metadata line whose value field is empty: "1302" or "1302 <key>".
WordsOf(line) == SelectSeq(line, LAMBDA p : ~IsSpace(p))
IsEmptyMetadataLine(line) == LeadWord(line) = "1302" /\ Len(WordsOf(line)) <= 2
IsEmptyMetadataTokens(t) == t.code = 1302 /\ Len(t.fields) <= 1

\* C8 as stated: the text of an Airport, and so the text write_to_disk writes,
\* holds no metadata line whose value field is empty.
C8_EmptyMetadataExcluded ==
  /\ pc = "done" =>
       \A i \in 1..Len(airports) :
         \A l \in 1..Len(splitlines(Airport_str(airports[i]))) :
           ~IsEmptyMetadataLine(splitlines(Airport_str(airports[i]))[l])
  /\ \A l \in 1..Len(splitlines(disk)) : ~IsEmptyMetadataLine(splitlines(disk)[l])

\* The input is a valid file: every non-blank body line begins with an integer
\* code, and the last non-blank line is the file terminator.
ValidInput ==
  LET lines == splitlines(input)
      body == IF Len(lines) >= 2 /\ lines[1] \in {<<"A">>, <<"I">>} /\ Contains(lines[2], GENERATED_BY)
              THEN SubSeq(lines, 3, Len(lines)) ELSE lines
      nonblank == SelectSeq(body, LAMBDA l : ~IsBlankLine(l))
  IN  /\ nonblank # <<>>
      /\ \A i \in 1..Len(nonblank) : LeadWord(nonblank[i]) \in DOMAIN IntLit
      /\ nonblank[Len(nonblank)] = <<"99">>

\* The token lists of an airport that are not empty-valued metadata records.
FieldContent(apt) == SelectSeq(apt.tokenized_lines, LAMBDA t : ~IsEmptyMetadataTokens(t))

\* C1: parsing the text write_to_disk wrote for a container parsed from valid
\* input does not fail and gives as many airports, with the same identifiers
\* in the same order and, airport by airport, the same fields (whitespace
\* collapsed, empty-valued metadata lines left aside).
C1_RoundTrip ==
  (gen = 1 /\ ValidInput) =>
    /\ pc # "raised"
    /\ pc = "done" =>
         /\ Len(airports) = Len(saved)
         /\ \A i \in 1..Len(saved) :
              /\ Airport_id(airports[i]) = Airport_id(saved[i])
              /\ FieldContent(airports[i]) = FieldContent(saved[i])

\* A container of two airports, one with an empty-valued metadata line and one
\* whose header has a run of two spaces, written and parsed again.
C1_Witness ==
  /\ gen = 1
  /\ pc = "done"
  /\ ValidInput
  /\ Len(saved) = 2
  /\ \E i \in 1..2 : \E j \in 1..Len(saved[i].tokenized_lines) :
       IsEmptyMetadataTokens(saved[i].tokenized_lines[j])
  /\ \E i \in 1..2 : Contains(saved[i].raw_lines[1], <<SP, SP>>)
  /\ Len(airports) = 2

\* ------------------------------------------------------------------ properties of search_by_id

LowerWord == ("KSEA" :> "ksea") @@ ("KBFI" :> "kbfi") @@ ("SEA" :> "sea")
CaseFold(s) == [i \in 1..Len(s) |-> IF s[i] \in DOMAIN LowerWord THEN LowerWord[s[i]] ELSE s[i]]

\* The airports whose identifier is id, letter case aside.
MatchesOf(id) ==
  {i \in 1..Len(airports) :
     /\ airports[i].tokenized_lines # <<>>
     /\ Len(airports[i].tokenized_lines[1].fields) >= 4
     /\ CaseFold(airports[i].tokenized_lines[1].fields[4]) = CaseFold(id)}
AllHaveId ==
  \A i \in 1..Len(airports) :
    airports[i].tokenized_lines # <<>> /\ Len(airports[i].tokenized_lines[1].fields) >= 4

ValuedRecords(K) ==
  {j \in 1..Len(airport.tokenized_lines) :
     /\ airport.tokenized_lines[j].code = 1302
     /\ Len(airport.tokenized_lines[j].fields) >= 2
     /\ airport.tokenized_lines[j].fields[1] = <<K>>}

\* C7 as stated: metadata has an entry for the key K exactly when a 1302 record
\* has K in field 1 and at least one value field, and the entry's value is the
\* record's fields 2 and beyond joined by single spaces; a record with an
\* unknown key or without a value gives no entry.
C7_MetadataEntries ==
  metadata.status = "ok" =>
    \A K \in MetadataKey :
      /\ (K \in DOMAIN metadata.val) <=> (ValuedRecords(K) # {})
      /\ (K \in DOMAIN metadata.val) =>
           \E j \in ValuedRecords(K) :
             metadata.val[K] =
               Join(<<SP>>, SubSeq(airport.tokenized_lines[j].fields, 2,
                                   Len(airport.tokenized_lines[j].fields)))

\* ------------------------------------------------------------------ properties of Airport.latitude, Airport.longitude

\* The runway-type records of the airport built, and the first in file order.
RunwayIdx ==
  {i \in 1..Len(airport.tokenized_lines) : airport.tokenized_lines[i].code \in {100, 101, 102}}
FirstRunway == airport.tokenized_lines[SetMin(RunwayIdx)]

\* Field i of a record is a number; its value.
IsNum(t, i) == i <= Len(t.fields) /\ Len(t.fields[i]) = 1 /\ t.fields[i][1] \in DOMAIN IntLit
Num(t, i) == IntLit[t.fields[i][1]]

\* Twice the latitude and twice the longitude the claim gives for a runway
\* record: the sum of the two ends for a land or water runway, twice the one
\* coordinate for a helipad.
ClaimedLat2(t) ==
  CASE t.code = 100 -> Num(t, 9) + Num(t, 18)
    [] t.code = 101 -> Num(t, 4) + Num(t, 7)
    [] t.code = 102 -> 2 * Num(t, 2)
ClaimedLon2(t) ==
  CASE t.code = 100 -> Num(t, 10) + Num(t, 19)
    [] t.code = 101 -> Num(t, 5) + Num(t, 8)
    [] t.code = 102 -> 2 * Num(t, 3)
LatFields(t) == CASE t.code = 100 -> {9, 18} [] t.code = 101 -> {4, 7} [] t.code = 102 -> {2}
LonFields(t) == CASE t.code = 100 -> {10, 19} [] t.code = 101 -> {5, 8} [] t.code = 102 -> {3}

\* C9: latitude and longitude come from the first runway-type record in file
\* order alone: the mean of fields 9 and 18 (10 and 19) of a land runway, of
\* fields 4 and 7 (5 and 8) of a water runway, field 2 (3) of a helipad as it
\* is; without a runway-type record, or without the fields, the access fails.
C9_Position ==
  /\ latitude.status # "" =>
       IF RunwayIdx # {} /\ \A i \in LatFields(FirstRunway) : IsNum(FirstRunway, i)
       THEN latitude = [status |-> "ok", val |-> ClaimedLat2(FirstRunway)]
       ELSE latitude.status \in {"AssertionError", "IndexError", "ValueError"}
  /\ longitude.status # "" =>
       IF RunwayIdx # {} /\ \A i \in LonFields(FirstRunway) : IsNum(FirstRunway, i)
       THEN longitude = [status |-> "ok", val |-> ClaimedLon2(FirstRunway)]
       ELSE longitude.status \in {"AssertionError", "IndexError", "ValueError"}

\* An airport whose first runway-type record is a helipad, with a land runway
\* after it: both coordinates read, and they are the helipad's.
C9_Witness ==
  /\ latitude.status = "ok"
  /\ longitude.status = "ok"
  /\ RunwayIdx # {}
  /\ FirstRunway.code = 102
  /\ \E i \in RunwayIdx : airport.tokenized_lines[i].code = 100
  /\ latitude.val = 2 * Num(FirstRunway, 2)
  /\ longitude.val = 2 * Num(FirstRunway, 3)

\* ------------------------------------------------------------------ properties of removal

\* The identifier of an airport of a list, letter case aside.
FoldedId(apt) == CaseFold(apt.tokenized_lines[1].fields[4])

\* C11 as stated: del container[id] leaves, in their order, exactly the
\* airports whose identifier is not id, letter case aside, and a later
\* search_by_id of the same id in any letter case finds no airport.
C11_RemoveById ==
  removed.status = "ok" =>
    /\ airports = SelectSeq(removed.before, LAMBDA apt : FoldedId(apt) # CaseFold(removed.key))
    /\ (found.status # "" /\ CaseFold(found.q) = CaseFold(removed.key)) => found.status = "None"

\* ------------------------------------------------------------------ properties of combination

\* The airport sequence of the container a combination returned.
ResultAirports ==
  CASE out_ref = "self" -> airports
    [] out_ref = "other" -> other
    [] out_ref = "fresh" -> fresh

C13_AirportFile ==
  apt_disk # <<>> =>
    LET written == splitlines(apt_disk)
    IN  /\ Len(written) >= 3
        /\ written[1] \in {<<"I">>, <<"A">>}
        /\ written[2] = <<"1100", SP, "Generated", SP, "by", SP, "WorldEditor">>
        /\ written[Len(written)] = <<"99">>

\* C14 as stated: head(n) returns the first n raw lines of the airport, or all
\* of them when it has fewer, joined by the line ending.
C14_Head ==
  (head_out.status # "" /\ head_out.num_lines >= 1) =>
    /\ head_out.status = "ok"
    /\ head_out.val =
         Join(<<NL>>, [i \in 1..(IF head_out.num_lines < Len(airport.raw_lines)
                                  THEN head_out.num_lines ELSE Len(airport.raw_lines))
                        |-> airport.raw_lines[i]])

\* ------------------------------------------------------------------ properties of the line buffers

\* raw_lines and tokenized_lines of an airport have the same length, and each
\* token list is the tokenization of the raw line at its index.
Corresponds(apt) ==
  /\ Len(apt.raw_lines) = Len(apt.tokenized_lines)
  /\ \A i \in 1..Len(apt.raw_lines) :
       /\ tokenize(apt.raw_lines[i]).status = "ok"
       /\ apt.tokenized_lines[i] = Tokens(tokenize(apt.raw_lines[i]))

\* C16 as stated: every Airport built by Airport.from_str or Airport.from_lines,
\* and every Airport of a parsed container, has buffers that correspond.
C16_BufferCorrespondence ==
  /\ apt_pc = "built" => Corresponds(airport)
  /\ pc = "done" => \A i \in 1..Len(airports) : Corresponds(airports[i])

\* ------------------------------------------------------------------ properties of the header fields

\* The number of fields after the row code on the first line of the text the
\* Airport was built from.
HeaderFieldCount == Len(WordsOf(splitlines(apt_text)[1])) - 1

\* C15 as stated: an Airport is built also from a header line with too few
\* fields, and each of id (field 4), name (fields 5 and beyond),
\* elevation_ft_amsl (field 1) and has_atc (field 2) raises an error when the
\* header line does not have its field.
C15_HeaderFieldErrors ==
  /\ apt_pc # "raised"
  /\ (id_out.status # "" /\ HeaderFieldCount < 4) => id_out.status # "ok"
  /\ (name_out.status # "" /\ HeaderFieldCount < 5) => name_out.status # "ok"
  /\ (elevation_out.status # "" /\ HeaderFieldCount < 1) => elevation_out.status # "ok"
  /\ (has_atc_out.status # "" /\ HeaderFieldCount < 2) => has_atc_out.status # "ok"

\* ------------------------------------------------------------------ properties of has_comm_freq

\* The codes of the frequency records 50-57 and of the channel records
\* 1050-1057.
FrequencyRecordCodes == (50..57) \cup (1050..1057)

\* C17 as stated: has_comm_freq is true exactly when some line of the airport
\* is a frequency record (50-57) or a channel record (1050-1057).
C17_HasCommFreq ==
  comm_freq.status # "" =>
    (comm_freq.val <=>
       \E i \in 1..Len(airport.tokenized_lines) :
         airport.tokenized_lines[i].code \in FrequencyRecordCodes)

\* ------------------------------------------------------------------ properties of the file terminator

\* The last non-blank line of the file parsed is a file terminator.
EndsWithTerminator ==
  NonBlankIdx # <<>> /\ IsFileEndLine(dat_text[NonBlankIdx[Len(NonBlankIdx)]])

\* The non-blank lines from the last airport-header line on, or all of them
\* when the file has no header line, as positions in dat_text.
LastSection ==
  IdxSeq(IF HeaderIdx = <<>> THEN 1 ELSE HeaderIdx[Len(HeaderIdx)],
         Len(dat_text),
         {i \in 1..Len(dat_text) : ~IsBlankLine(dat_text[i])})

\* C18: when the last non-blank line of the input is the file terminator 99,
\* the parse that returns leaves the last Airport with the lines of its section
\* but that last one, in raw_lines and in tokenized_lines alike, so both are one
\* shorter than the section and of the same length; when the section has no
\* other terminator line, neither buffer holds a terminator record.
C18_TerminatorDropped ==
  (pc = "done" /\ EndsWithTerminator) =>
    /\ airports # <<>>
    /\ Len(airports[Len(airports)].raw_lines) = Len(LastSection) - 1
    /\ Len(airports[Len(airports)].tokenized_lines) = Len(LastSection) - 1
    /\ HoldsLines(airports[Len(airports)], SubSeq(LastSection, 1, Len(LastSection) - 1))
    /\ (\A j \in 1..(Len(LastSection) - 1) : ~IsFileEndLine(dat_text[LastSection[j]])) =>
         \A j \in 1..Len(airports[Len(airports)].raw_lines) :
           /\ airports[Len(airports)].tokenized_lines[j].code # 99
           /\ ~IsFileEndLine(airports[Len(airports)].raw_lines[j])

\* A file whose last airport has a header line, a metadata line and the file
\* terminator, parsed: the Airport holds the first two.
C18_Witness ==
  /\ pc = "done"
  /\ gen = 0
  /\ EndsWithTerminator
  /\ Len(LastSection) = 3
  /\ IsHeaderLine(dat_text[LastSection[1]])
  /\ LeadWord(dat_text[LastSection[2]]) = "1302"
  /\ Len(airports[Len(airports)].raw_lines) = 2
  /\ Len(airports[Len(airports)].tokenized_lines) = 2

\* ------------------------------------------------------------------ properties of the tokenizer

\* C19 as stated: the token list of a line is its row code and its fields, the
\* maximal runs of characters that are not whitespace, whatever runs of spaces
\* and tabs separate them (so it is the token list of the same fields separated
\* by single spaces); a line that is empty or all whitespace has no token.
C19_WhitespaceRuns ==
  tokens_out.status # "" =>
    IF WordsOf(tok_line) = <<>>
    THEN tokens_out.status = "empty"
    ELSE /\ tokens_out.status = "ok"
         /\ tokens_out.code = IntLit[WordsOf(tok_line)[1]]
         /\ tokens_out.fields = [i \in 1..(Len(WordsOf(tok_line)) - 1) |-> <<WordsOf(tok_line)[i + 1]>>]
         /\ tokens_out = tokenize(Join(<<SP>>, [i \in 1..Len(WordsOf(tok_line)) |-> <<WordsOf(tok_line)[i]>>]))

\* ------------------------------------------------------------------ properties of the taxi-route network

\* The node-declaration and edge-declaration records of the airport built.
NodeRecords ==
  {i \in 1..Len(airport.tokenized_lines) : airport.tokenized_lines[i].code = 1201}
EdgeRecords ==
  {i \in 1..Len(airport.tokenized_lines) : airport.tokenized_lines[i].code = 1202}

\* A node record of the form "1201 <lat> <lon> <id>": three numbers, maybe
\* more fields after them.  An edge record with its four leading fields.
IsClaimedNode(t) == IsNum(t, 1) /\ IsNum(t, 2) /\ IsNum(t, 3)
IsWholeEdge(t) == IsNum(t, 1) /\ IsNum(t, 2) /\ Len(t.fields) >= 4

\* C20 as stated: when every node record has the form "1201 <lat> <lon> <id>"
\* (and every edge record is whole), the network is built, its node map has
\* one entry for each distinct <id> of the node records and no other, and the
\* entry of an id has the latitude and longitude of a record with that id.
C20_TaxiNodes ==
  (/\ atc_network.status # ""
   /\ \A i \in NodeRecords : IsClaimedNode(airport.tokenized_lines[i])
   /\ \A i \in EdgeRecords : IsWholeEdge(airport.tokenized_lines[i])) =>
    /\ atc_network.status = "ok"
    /\ DOMAIN atc_network.nodes = {Num(airport.tokenized_lines[i], 3) : i \in NodeRecords}
    /\ \A n \in DOMAIN atc_network.nodes :
         /\ atc_network.nodes[n].id = n
         /\ \E i \in NodeRecords :
              /\ Num(airport.tokenized_lines[i], 3) = n
              /\ atc_network.nodes[n].lat = 2 * Num(airport.tokenized_lines[i], 1)
              /\ atc_network.nodes[n].lon = 2 * Num(airport.tokenized_lines[i], 2)

\* The edge records of the airport built, in file order.
EdgeRecordSeq == IdxSeq(1, Len(airport.tokenized_lines), EdgeRecords)

\* The width class that field 4 names: X for 'taxiway_X' with X one of A..F,
\* "None" for every other word.
WidthClassWord ==
  ("taxiway_A" :> "A") @@ ("taxiway_B" :> "B") @@ ("taxiway_C" :> "C")
  @@ ("taxiway_D" :> "D") @@ ("taxiway_E" :> "E") @@ ("taxiway_F" :> "F")
ClaimedWidth(t) ==
  IF t.fields[4][1] \in DOMAIN WidthClassWord THEN WidthClassWord[t.fields[4][1]] ELSE "None"

\* The name of an edge: the fields 5 and beyond, one space between two.
ClaimedName(t) ==
  LET F[k \in 4..Len(t.fields)] ==
        IF k = 4 THEN <<>>
        ELSE IF k = 5 THEN t.fields[5]
        ELSE F[k - 1] \o <<" ">> \o t.fields[k]
  IN  F[Len(t.fields)]

\* The node records the code reads without an error: four fields or more,
\* the fields 1, 2 and 4 numbers.
IsReadNode(t) == IsNum(t, 1) /\ IsNum(t, 2) /\ IsNum(t, 4)

\* C21 as stated: when every record of the network is read without an error,
\* the edge list has one edge per 1202 record, in file order; the edge of a
\* record has the node ids of its fields 1 and 2, is one-way exactly when
\* field 3 is 'oneway', is named by the fields 5 and beyond joined by single
\* spaces, has the width class X exactly when field 4 is 'taxiway_X' with X
\* in A..F, is a runway exactly when field 4 is 'runway', and is never both;
\* the node ids of an edge need not be declared.
C21_TaxiEdges ==
  (/\ atc_network.status # ""
   /\ \A i \in NodeRecords : IsReadNode(airport.tokenized_lines[i])
   /\ \A i \in EdgeRecords : IsWholeEdge(airport.tokenized_lines[i])) =>
    /\ atc_network.status = "ok"
    /\ Len(atc_network.edges) = Len(EdgeRecordSeq)
    /\ \A k \in 1..Len(EdgeRecordSeq) :
         LET t == airport.tokenized_lines[EdgeRecordSeq[k]]
             e == atc_network.edges[k]
         IN  /\ e.node_begin = Num(t, 1)
             /\ e.node_end = Num(t, 2)
             /\ e.one_way = (t.fields[3] = <<"oneway">>)
             /\ e.name = ClaimedName(t)
             /\ e.icao_width = ClaimedWidth(t)
             /\ e.is_runway = (t.fields[4] = <<"runway">>)
             /\ ~(e.is_runway /\ e.icao_width # "None")

\* C21 apart from the width class of a field 4 of more than one letter after
\* 'taxiway_': the same statement over the airports with no such field.
C21_SingleLetterEdges ==
  (\A i \in EdgeRecords :
     Len(airport.tokenized_lines[i].fields) >= 4 =>
       airport.tokenized_lines[i].fields[4] # <<"taxiway_CD">>) => C21_TaxiEdges

\* An edge between undeclared nodes, with a width class, is in the network.
C21_Reached ==
  /\ atc_network.status = "ok"
  /\ Len(atc_network.edges) = 2
  /\ atc_network.edges[1].icao_width = "C"
  /\ atc_network.edges[2].is_runway
  /\ DOMAIN atc_network.nodes = {}

\* ------------------------------------------------------------------ properties of the derived properties

\* C22 as stated: once an access has returned a value of a derived property
\* (latitude, longitude, metadata, the taxi-route network, the set of row
\* codes), no later step of the Airport, an access or the replacement of its
\* line buffers, makes the property return another value.
C22_ComputeOnce ==
  [][/\ latitude.status = "ok" => latitude' = latitude
     /\ longitude.status = "ok" => longitude' = longitude
     /\ metadata.status = "ok" => metadata' = metadata
     /\ atc_network.status = "ok" => atc_network' = atc_network
     /\ row_codes.status = "ok" => row_codes' = row_codes]_vars

\* The same for the properties the source declares with apt_cached_property.
C22_CachedProperties ==
  [][/\ metadata.status = "ok" => metadata' = metadata
     /\ atc_network.status = "ok" => atc_network' = atc_network
     /\ row_codes.status = "ok" => row_codes' = row_codes]_vars

\* The cached values are those of buffers the Airport no longer has.
C22_Reached ==
  /\ metadata.status = "ok"
  /\ row_codes.status = "ok"
  /\ atc_network.status = "ok"
  /\ metadata # Airport_metadata(airport)
  /\ row_codes.val # Airport_row_codes(airport)
  /\ atc_network # TaxiRouteNetwork_from_tokenized_lines(airport.tokenized_lines)

\* ------------------------------------------------------------------ properties of the gateway

\* The airports of the Gateway whose pack the caller asked for: every one
\* when the argument is None, those named in the list when it is a list; and
\* among them those that are not deprecated and have a recommended scenery.
AskedFor(i) ==
  selective_apt_ids.none
  \/ \E k \in 1..Len(selective_apt_ids.ids) : selective_apt_ids.ids[k] = listing[i].AirportCode
Wanted == {i \in 1..Len(listing) : AskedFor(i) /\ ~listing[i].Deprecated
                                     /\ listing[i].RecommendedSceneryId > 0}

\* C23 as stated: every pack downloaded and every pack yielded is the
\* recommended pack of an airport that is asked for, not deprecated and has a
\* recommended scenery id; with a list, the empty one too, that is an airport
\* of the list.
C23_SelectedPacks ==
  /\ \A k \in 1..Len(requested) : \E i \in Wanted : listing[i].RecommendedSceneryId = requested[k]
  /\ \A k \in 1..Len(yielded) : \E i \in Wanted : listing[i].AirportCode = yielded[k]

\* The same for every argument but the empty list; and a generator that ends
\* has yielded the pack of every such airport, in the order of the Gateway.
C23_NonEmptyList ==
  (selective_apt_ids.none \/ Len(selective_apt_ids.ids) > 0) =>
    /\ C23_SelectedPacks
    /\ packs_pc = "done" =>
         yielded = [k \in 1..Cardinality(Wanted) |->
                      listing[IdxSeq(1, Len(listing), Wanted)[k]].AirportCode]

\* A list of two ids, one of them recommended: its pack alone is yielded.
C23_Reached ==
  /\ packs_pc = "done"
  /\ Len(selective_apt_ids.ids) = 2
  /\ Len(listing) = 2
  /\ \A i \in 1..2 : ~listing[i].Deprecated /\ listing[i].RecommendedSceneryId > 0
  /\ yielded = <<"KSEA", "KBFI">>

\* What an attempt met is a failure: no answer, a status of 300 or above, or
\* an answer without the key asked for.
FailedAttempt(met) ==
  met.kind = "ConnectionError" \/ met.status_code > 299 \/ met.body = "none"

\* The error of a failed attempt.
ErrorOf(met) ==
  IF met.kind = "ConnectionError" THEN "ConnectionError"
  ELSE IF met.status_code > 299 THEN "HTTPError" ELSE "KeyError"

\* C24: a request with retries_on_error = n makes at most n + 1 attempts;
\* every attempt before the last one made has failed, and the request that
\* returned has the result of its last attempt, which succeeded; the k-th
\* failed attempt, k = 0..n-1, is followed by a sleep of k seconds, and no
\* other sleep is made; the request raises exactly when n + 1 attempts have
\* failed, with the error of the last one; an attempt answered with a status
\* of 300 or above is a failed one.
C24_RetryLoop ==
  req_pc # "idle" =>
    /\ Len(responses) <= retries_on_error + 1
    /\ \A i \in 1..(Len(responses) - 1) : FailedAttempt(responses[i])
    /\ req_pc = "returned" =>
         /\ ~FailedAttempt(responses[Len(responses)])
         /\ req_out = [status |-> "ok", val |-> responses[Len(responses)].body]
    /\ req_pc = "loop" =>
         /\ \A i \in 1..Len(responses) : FailedAttempt(responses[i])
         /\ Len(responses) <= retries_on_error
    /\ req_pc = "raised" <=>
         /\ Len(responses) = retries_on_error + 1
         /\ \A i \in 1..Len(responses) : FailedAttempt(responses[i])
    /\ req_pc = "raised" =>
         req_out = [status |-> ErrorOf(responses[Len(responses)]), val |-> ""]
    /\ slept = [k \in 1..Cardinality({i \in 1..Len(responses) :
                                        FailedAttempt(responses[i]) /\ i <= retries_on_error}) |-> k - 1]

\* Three attempts failed, the second with the status 300, the sleeps were of
\* 0, 1 and 2 seconds, and the fourth attempt succeeded.
C24_Witness ==
  /\ req_pc = "returned"
  /\ retries_on_error = 3
  /\ Len(responses) = 4
  /\ responses[2].kind = "response" /\ responses[2].status_code = 300
  /\ responses[2].body # "none"
  /\ slept = <<0, 1, 2>>

\* All the attempts failed and the error of the last one left the request.
C24_Raised ==
  /\ req_pc = "raised"
  /\ retries_on_error = 2
  /\ Len(responses) = 3
  /\ responses[2].kind = "ConnectionError"
  /\ req_out.status = "HTTPError"

====
